---- MODULE Spec2Model ----
(***************************************************************************)
(* A model of the character creator's configuration core:                  *)
(*   - the ConfigManager singleton (utils/config-manager): loadAllConfigs, *)
(*     _loadAllConfigs, the cross-reference and global-uniqueness          *)
(*     validators, reset and the getters;                                  *)
(*   - the per-document Zod schemas, as far as they decide whether a       *)
(*     document loads;                                                     *)
(*   - the state synchroniser (utils/config-sync) and the character store  *)
(*     that calls it.                                                      *)
(***************************************************************************)
EXTENDS Integers, Sequences, FiniteSets, TLC

VARIABLES
    server,        \* the six documents as the web server holds them
    online,        \* whether fetch() currently reaches the server
    config,        \* ConfigManager.config (NoConfig models null)
    loadPromise,   \* ConfigManager.loadPromise: 0 models null, else a load
    errors,        \* ConfigManager.errors
    loads,         \* every _loadAllConfigs() invocation and its promise
    calls,         \* every loadAllConfigs() invocation and what it returned
    fetchCount,    \* number of fetch() calls issued, per document
    nResets,       \* number of reset() calls made
    resetAt,       \* number of loads started before the last reset()
    character,     \* the character store's record
    _inventoryConfig, \* the character store's remembered inventory config
    lastOp,        \* the store operation called last, and whether it threw
    pre            \* the store's record before that operation

managerVars == <<server, online, config, loadPromise, errors, loads, calls,
                 fetchCount, nResets, resetAt>>
storeVars == <<character, _inventoryConfig, lastOp, pre>>
vars == <<managerVars, storeVars>>

-----------------------------------------------------------------------------
(* Bounds of the model. *)

MaxCalls == 3
MaxResets == 1

-----------------------------------------------------------------------------
(* Helpers on sequences. *)

Range(s) == {s[i] : i \in DOMAIN s}

NoDuplicates(s) == \A i, j \in DOMAIN s : s[i] = s[j] => i = j

RECURSIVE Flatten(_)
Flatten(ss) == IF ss = <<>> THEN <<>> ELSE Head(ss) \o Flatten(Tail(ss))

-----------------------------------------------------------------------------
(* The documents.  A JSON list is a sequence; an optional property is a    *)
(* has-flag beside the value; lists are indexed from 1 here and from 0 in  *)
(* every path the program reports.                                         *)

DocNames == <<"attributes", "enums", "characterInfo", "combatStats",
              "inventory", "levelClass">>

NoConfig == [loaded |-> FALSE]

\* The key under which JavaScript finds the property `id` of an array.
Undefined == "<undefined>"

\* An optional number of a schema: left out, or given.
Absent == [has |-> FALSE, v |-> 0]
Present(v) == [has |-> TRUE, v |-> v]

\* A numeric schema that gives at most a default and a maximum.  `maximum`
\* is "none" (left out), "dynamic" or "number"; maximumValue is the number.
NumericSchema(hasDefault, default, maximum) ==
    [type |-> "integer", hasDefault |-> hasDefault, default |-> default,
     minimum |-> Absent, maximum |-> maximum, maximumValue |-> 0,
     exclusiveMinimum |-> Absent, exclusiveMaximum |-> Absent,
     multipleOf |-> Absent]


Attr(id, hasDefault, default) ==
    [id |-> id, label |-> "Label",
     schema |-> NumericSchema(hasDefault, default, "none")]

Stat(id, hasDefault, default, maximum) ==
    [pair |-> FALSE, id |-> id, label |-> "Label",
     schema |-> NumericSchema(hasDefault, default, maximum)]

Pair(first, second) == [pair |-> TRUE, first |-> first, second |-> second]

PlainValue(name) == [obj |-> FALSE, name |-> name]
ObjectValue(name) == [obj |-> TRUE, name |-> name]

Enum(id, values) == [id |-> id, label |-> "Label", values |-> values]

TextField(id, hasDefault, defaultValue) ==
    [id |-> id, label |-> "Label", type |-> "text", enumRef |-> [enumId |-> ""],
     hasDefault |-> hasDefault, defaultValue |-> defaultValue]

EnumField(id, enumId) ==
    [id |-> id, label |-> "Label", type |-> "enum", enumRef |-> [enumId |-> enumId],
     hasDefault |-> FALSE, defaultValue |-> ""]

Tab(id, itemEnumId, slotFormula) ==
    [id |-> id, itemEnumId |-> itemEnumId, slotFormula |-> slotFormula]

AttributesDoc(title, attributes) == [title |-> title, attributes |-> attributes]
EnumsDoc(enums) == [enums |-> enums]
CharacterInfoDoc(fields) == [title |-> "Character", fields |-> fields]
CombatStatsDoc(stats) == [title |-> "Combat", stats |-> stats]
InventoryDoc(tabs) == [title |-> "Inventory", tabs |-> tabs]
LevelClassDoc(enumId) == [title |-> "Levels", classEnum |-> [enumId |-> enumId]]

\* What fetch() yields for a document: the file is absent (404), or it is
\* served with some JSON content.
Missing == [found |-> FALSE]
File(json) == [found |-> TRUE, json |-> json]

\* What this.config holds after a successful load.
AppConfig(attributes, enums, characterInfo, combatStats, inventory, levelClass) ==
    [loaded |-> TRUE, attributes |-> attributes, enums |-> enums,
     characterInfo |-> characterInfo, combatStats |-> combatStats,
     inventory |-> inventory, levelClass |-> levelClass]

-----------------------------------------------------------------------------
(* The Zod schemas: each yields the issues (path, message) of a document,  *)
(* in Zod's order; a document passes when there are none.                  *)

Issue(path, message) == [path |-> path, message |-> message]

\* A list index as it appears in a dotted path (JavaScript counts from 0).
Idx(i) == ToString(i - 1)

\* z.string().min(1, message) at `path`
MinOne(str, path, message) ==
    IF str = "" THEN <<Issue(path, message)>> ELSE <<>>

\* z.array(...).min(1, message) at `path`
NonEmptyList(list, path, message) ==
    IF Len(list) = 0 THEN <<Issue(path, message)>> ELSE <<>>

\* .refine(check, {message}) on the value at `path`
Refine(holds, path, message) ==
    IF holds THEN <<>> ELSE <<Issue(path, message)>>

NumericSchemaSchema(schema, path) ==
    (IF schema.multipleOf.has /\ schema.multipleOf.v <= 0
     THEN <<Issue(path \o ".multipleOf", "Number must be greater than 0")>>
     ELSE <<>>)
    \o Refine((schema.minimum.has /\ schema.maximum = "number")
                  => schema.minimum.v <= schema.maximumValue,
              path, "minimum must be less than or equal to maximum")
    \o Refine((schema.exclusiveMinimum.has /\ schema.exclusiveMaximum.has)
                  => schema.exclusiveMinimum.v < schema.exclusiveMaximum.v,
              path, "exclusiveMinimum must be less than exclusiveMaximum")

AttributeConfigSchema(attr, path) ==
    MinOne(attr.id, path \o ".id", "Attribute ID cannot be empty")
    \o MinOne(attr.label, path \o ".label", "Attribute label cannot be empty")
    \o NumericSchemaSchema(attr.schema, path \o ".schema")

AttributesConfigSchema(doc) ==
    MinOne(doc.title, "title", "Title cannot be empty")
    \o Flatten([i \in DOMAIN doc.attributes |->
                  AttributeConfigSchema(doc.attributes[i], "attributes." \o Idx(i))])
    \o NonEmptyList(doc.attributes, "attributes",
                    "At least one attribute must be defined")
    \o Refine(NoDuplicates([i \in DOMAIN doc.attributes |-> doc.attributes[i].id]),
              "", "All attribute IDs must be unique")

EnumValueSchema(value, path) ==
    IF value.obj
    THEN MinOne(value.name, path \o ".name", "Enum value name cannot be empty")
    ELSE MinOne(value.name, path, "Enum value string cannot be empty")

EnumDefinitionSchema(enumDef, path) ==
    MinOne(enumDef.id, path \o ".id", "Enum ID cannot be empty")
    \o MinOne(enumDef.label, path \o ".label", "Enum label cannot be empty")
    \o Flatten([i \in DOMAIN enumDef.values |->
                  EnumValueSchema(enumDef.values[i], path \o ".values." \o Idx(i))])
    \o NonEmptyList(enumDef.values, path \o ".values",
                    "Enum must have at least one value")
    \o Refine(NoDuplicates([i \in DOMAIN enumDef.values |-> enumDef.values[i].name]),
              path, "All enum value names must be unique")

EnumsConfigSchema(doc) ==
    Flatten([i \in DOMAIN doc.enums |->
               EnumDefinitionSchema(doc.enums[i], "enums." \o Idx(i))])
    \o NonEmptyList(doc.enums, "enums", "At least one enum must be defined")
    \o Refine(NoDuplicates([i \in DOMAIN doc.enums |-> doc.enums[i].id]),
              "", "All enum IDs must be unique")

FieldConfigSchema(field, path) ==
    MinOne(field.id, path \o ".id", "Field ID cannot be empty")
    \o MinOne(field.label, path \o ".label", "Field label cannot be empty")
    \o (IF field.type = "enum"
        THEN MinOne(field.enumRef.enumId, path \o ".enumRef.enumId",
                    "Enum ID cannot be empty")
        ELSE <<>>)

CharacterInfoConfigSchema(doc) ==
    MinOne(doc.title, "title", "Title cannot be empty")
    \o Flatten([i \in DOMAIN doc.fields |->
                  FieldConfigSchema(doc.fields[i], "fields." \o Idx(i))])
    \o NonEmptyList(doc.fields, "fields", "At least one field must be defined")
    \o Refine(NoDuplicates([i \in DOMAIN doc.fields |-> doc.fields[i].id]),
              "", "All field IDs must be unique")

CombatStatConfigSchema(stat, path) ==
    MinOne(stat.id, path \o ".id", "Combat stat ID cannot be empty")
    \o MinOne(stat.label, path \o ".label", "Combat stat label cannot be empty")
    \o NumericSchemaSchema(stat.schema, path \o ".schema")

PairedCombatStatConfigSchema(entry, path) ==
    CombatStatConfigSchema(entry.first, path \o ".0")
    \o CombatStatConfigSchema(entry.second, path \o ".1")
    \o Refine(entry.first.schema.maximum = "dynamic"
                  => entry.second.schema.maximum # "dynamic",
              path,
              "In paired stats, if first stat has dynamic maximum, second stat must have numeric maximum")

CombatStatOrPairSchema(entry, path) ==
    IF entry.pair THEN PairedCombatStatConfigSchema(entry, path)
                  ELSE CombatStatConfigSchema(entry, path)

\* The IDs the combat-stats schema compares: a pair gives both members' IDs.
FlatStatIds(stats) ==
    Flatten([i \in DOMAIN stats |->
               IF stats[i].pair THEN <<stats[i].first.id, stats[i].second.id>>
                                ELSE <<stats[i].id>>])

CombatStatsConfigSchema(doc) ==
    MinOne(doc.title, "title", "Title cannot be empty")
    \o Flatten([i \in DOMAIN doc.stats |->
                  CombatStatOrPairSchema(doc.stats[i], "stats." \o Idx(i))])
    \o NonEmptyList(doc.stats, "stats", "At least one stat must be defined")
    \o Refine(NoDuplicates(FlatStatIds(doc.stats)),
              "", "All combat stat IDs must be unique")

InventoryTabConfigSchema(tab, path) ==
    MinOne(tab.id, path \o ".id", "Tab ID is required")
    \o MinOne(tab.itemEnumId, path \o ".itemEnumId", "Item enum ID is required")
    \o NonEmptyList(tab.slotFormula, path \o ".slotFormula",
                    "Slot formula is required")

InventoryConfigSchema(doc) ==
    Flatten([i \in DOMAIN doc.tabs |->
               InventoryTabConfigSchema(doc.tabs[i], "tabs." \o Idx(i))])
    \o NonEmptyList(doc.tabs, "tabs", "At least one tab is required")

LevelClassConfigSchema(doc) ==
    MinOne(doc.title, "title", "Title must not be empty")
    \o MinOne(doc.classEnum.enumId, "classEnum.enumId", "Enum ID must not be empty")

\* schema.safeParse(json), for the schema loadAllConfigs passes with `name`
SchemaIssues(name, json) ==
    CASE name = "attributes" -> AttributesConfigSchema(json)
      [] name = "enums" -> EnumsConfigSchema(json)
      [] name = "characterInfo" -> CharacterInfoConfigSchema(json)
      [] name = "combatStats" -> CombatStatsConfigSchema(json)
      [] name = "inventory" -> InventoryConfigSchema(json)
      [] name = "levelClass" -> LevelClassConfigSchema(json)

-----------------------------------------------------------------------------
(* ConfigManager: loading one document.                                    *)

ConfigValidationError(configName, path, message) ==
    [configName |-> configName, path |-> path, message |-> message]

\* What `await fetch(path)` gives: a rejection when the server cannot be
\* reached, else a response (404 for an absent file).
Fetch(name, srv, up) ==
    IF ~up THEN [rejected |-> TRUE]
    ELSE [rejected |-> FALSE, ok |-> srv[name].found, file |-> srv[name]]

Thrown(kind, message, issues) ==
    [ok |-> FALSE, kind |-> kind, message |-> message, issues |-> issues]

\* loadConfig: the validated data, or what it throws.
loadConfig(name, response) ==
    IF response.rejected THEN Thrown("Error", "Failed to fetch", <<>>)
    ELSE IF ~response.ok
    THEN Thrown("Error", "Failed to load " \o name \o ": 404 Not Found", <<>>)
    ELSE LET issues == SchemaIssues(name, response.file.json)
         IN  IF issues # <<>> THEN Thrown("ZodError", "", issues)
             ELSE [ok |-> TRUE, data |-> response.file.json]

extractErrors(error, configName) ==
    CASE error.kind = "ZodError" ->
           [i \in DOMAIN error.issues |->
              ConfigValidationError(configName, error.issues[i].path,
                                    error.issues[i].message)]
      [] error.kind = "Error" ->
           <<ConfigValidationError(configName, "", error.message)>>
      [] OTHER ->
           <<ConfigValidationError(configName, "", "Unknown error occurred")>>

-----------------------------------------------------------------------------
(* ConfigManager: the cross-document validators.                           *)

EnumIdsOf(enums) == {enums.enums[i].id : i \in DOMAIN enums.enums}

NotFoundMessage(enumId) ==
    "Referenced enum '" \o enumId \o "' not found in enums configuration"

validateEnumReferences(characterInfo, enums) ==
    Flatten([i \in DOMAIN characterInfo.fields |->
        LET field == characterInfo.fields[i]
        IN  IF field.type = "enum" /\ field.enumRef.enumId \notin EnumIdsOf(enums)
            THEN <<ConfigValidationError("characterInfo",
                      "fields." \o field.id \o ".enumRef.enumId",
                      NotFoundMessage(field.enumRef.enumId))>>
            ELSE <<>>])

\* A check of the tabs that looks up tab.id instead of tab.itemEnumId.
validateInventoryEnumReferencesByTabId(inventory, enums) ==
    Flatten([i \in DOMAIN inventory.tabs |->
        LET tab == inventory.tabs[i]
        IN  IF tab.id \notin EnumIdsOf(enums)
            THEN <<ConfigValidationError("inventory",
                      "tabs." \o Idx(i) \o ".itemEnumId",
                      NotFoundMessage(tab.itemEnumId))>>
            ELSE <<>>])

validateInventoryEnumReferences(inventory, enums) ==
    Flatten([i \in DOMAIN inventory.tabs |->
        LET tab == inventory.tabs[i]
        IN  IF tab.itemEnumId \notin EnumIdsOf(enums)
            THEN <<ConfigValidationError("inventory",
                      "tabs." \o Idx(i) \o ".itemEnumId",
                      NotFoundMessage(tab.itemEnumId))>>
            ELSE <<>>])

validateLevelClassEnumReferences(levelClass, enums) ==
    IF levelClass.classEnum.enumId \notin EnumIdsOf(enums)
    THEN <<ConfigValidationError("levelClass", "classEnum.enumId",
              NotFoundMessage(levelClass.classEnum.enumId))>>
    ELSE <<>>

\* One visit of validateGlobalIdUniqueness's forEach loops: the key looked
\* up in idMap, the text `${...id}` prints for it, and the place.
IdEntry(key, text, configName, path) ==
    [key |-> key, text |-> text, configName |-> configName, path |-> path]

\* `stat.id` of an entry of combatStats.stats: a paired stat is an array,
\* which has no property `id`.
StatId(entry) == IF entry.pair THEN Undefined ELSE entry.id

StatIdText(entry) == IF entry.pair THEN "undefined" ELSE entry.id

IdEntries(attributes, enums, characterInfo, combatStats, inventory) ==
    [i \in DOMAIN enums.enums |->
        IdEntry(enums.enums[i].id, enums.enums[i].id, "enums",
                "enums." \o Idx(i) \o ".id")]
    \o [i \in DOMAIN attributes.attributes |->
        IdEntry(attributes.attributes[i].id, attributes.attributes[i].id,
                "attributes", "attributes." \o Idx(i) \o ".id")]
    \o [i \in DOMAIN characterInfo.fields |->
        IdEntry(characterInfo.fields[i].id, characterInfo.fields[i].id,
                "characterInfo", "fields." \o Idx(i) \o ".id")]
    \o [i \in DOMAIN combatStats.stats |->
        IdEntry(StatId(combatStats.stats[i]), StatIdText(combatStats.stats[i]),
                "combatStats", "stats." \o Idx(i) \o ".id")]
    \o [i \in DOMAIN inventory.tabs |->
        IdEntry(inventory.tabs[i].id, inventory.tabs[i].id, "inventory",
                "tabs." \o Idx(i) \o ".id")]

\* The loops' body: report the entry when idMap has its key, else record it.
RECURSIVE CollectIds(_, _, _)
CollectIds(entries, idMap, errs) ==
    IF entries = <<>> THEN errs
    ELSE LET e == Head(entries)
         IN  IF e.key \in DOMAIN idMap
             THEN CollectIds(Tail(entries), idMap,
                    Append(errs, ConfigValidationError(e.configName, e.path,
                        "ID '" \o e.text \o "' is already used in "
                        \o idMap[e.key].configName \o " at " \o idMap[e.key].path)))
             ELSE CollectIds(Tail(entries),
                    idMap @@ (e.key :> [configName |-> e.configName, path |-> e.path]),
                    errs)

validateGlobalIdUniqueness(attributes, enums, characterInfo, combatStats, inventory) ==
    CollectIds(IdEntries(attributes, enums, characterInfo, combatStats, inventory),
               <<>>, <<>>)

-----------------------------------------------------------------------------
(* ConfigManager._loadAllConfigs, from the six fetches to its result.      *)

Success(cfg) == [settled |-> TRUE, success |-> TRUE, config |-> cfg, errors |-> <<>>]
Failure(errs) == [settled |-> TRUE, success |-> FALSE, config |-> NoConfig, errors |-> errs]
Pending == [settled |-> FALSE]

\* The six try blocks: what each loadConfig call gave.
LoadedDocs(srv, up) ==
    [i \in DOMAIN DocNames |-> loadConfig(DocNames[i], Fetch(DocNames[i], srv, up))]

\* A loader that gives up at the first document that fails.
DocumentErrorsOfFirstFailure(docs) ==
    LET failing == {i \in DOMAIN docs : ~docs[i].ok}
    IN  IF failing = {} THEN <<>>
        ELSE LET i == CHOOSE i \in failing : \A j \in failing : i <= j
             IN  extractErrors(docs[i], DocNames[i])

\* The six catch blocks, in order.
DocumentErrors(docs) ==
    Flatten([i \in DOMAIN DocNames |->
               IF docs[i].ok THEN <<>> ELSE extractErrors(docs[i], DocNames[i])])

_loadAllConfigs(srv, up) ==
    LET docs == LoadedDocs(srv, up)
        attributes == docs[1]
        enums == docs[2]
        characterInfo == docs[3]
        combatStats == docs[4]
        inventory == docs[5]
        levelClass == docs[6]
        errs ==
            DocumentErrors(docs)
            \o (IF characterInfo.ok /\ enums.ok
                THEN validateEnumReferences(characterInfo.data, enums.data)
                ELSE <<>>)
            \o (IF inventory.ok /\ enums.ok
                THEN validateInventoryEnumReferences(inventory.data, enums.data)
                ELSE <<>>)
            \o (IF levelClass.ok /\ enums.ok
                THEN validateLevelClassEnumReferences(levelClass.data, enums.data)
                ELSE <<>>)
            \o (IF attributes.ok /\ enums.ok /\ characterInfo.ok
                   /\ combatStats.ok /\ inventory.ok
                THEN validateGlobalIdUniqueness(attributes.data, enums.data,
                         characterInfo.data, combatStats.data, inventory.data)
                ELSE <<>>)
    IN  IF Len(errs) > 0 \/ \E i \in DOMAIN docs : ~docs[i].ok
        THEN Failure(errs)
        ELSE Success(AppConfig(attributes.data, enums.data, characterInfo.data,
                               combatStats.data, inventory.data, levelClass.data))

-----------------------------------------------------------------------------
(* ConfigManager: the operations.                                          *)
(*                                                                         *)
(* A load is one _loadAllConfigs() invocation.  Between its awaits it      *)
(* touches nothing but its own locals, so its fetches and its final        *)
(* synchronous part (lines 152-184) are taken as one step, LoadSettles.    *)
(* The continuation of the call that started the load (line 72) is the     *)
(* first reaction registered on the promise: it runs in the same microtask *)
(* checkpoint, before any other code can call the manager.                 *)

Call(load, result) == [load |-> load, result |-> result]

\* loadAllConfigs() while a load is in flight: line 61
JoinLoad ==
    /\ loadPromise # 0
    /\ calls' = Append(calls, Call(loadPromise, Pending))
    /\ UNCHANGED <<server, online, config, loadPromise, errors, loads,
                   fetchCount, nResets, resetAt>>

\* loadAllConfigs() with a cached configuration: line 66
ReturnCached ==
    /\ loadPromise = 0
    /\ config.loaded
    /\ calls' = Append(calls, Call(0, Success(config)))
    /\ UNCHANGED <<server, online, config, loadPromise, errors, loads,
                   fetchCount, nResets, resetAt>>

\* loadAllConfigs() otherwise: line 70, up to the first await in
\* _loadAllConfigs, which has issued the fetch of the first document.
StartLoad ==
    /\ loadPromise = 0
    /\ ~config.loaded
    /\ loads' = Append(loads, Pending)
    /\ loadPromise' = Len(loads) + 1
    /\ calls' = Append(calls, Call(Len(loads) + 1, Pending))
    /\ fetchCount' = [fetchCount EXCEPT ![1] = @ + 1]
    /\ UNCHANGED <<server, online, config, errors, nResets, resetAt>>

loadAllConfigs ==
    /\ Len(calls) < MaxCalls
    /\ (JoinLoad \/ ReturnCached \/ StartLoad)
    /\ UNCHANGED storeVars

\* Load l gets its responses and finishes: lines 86-184, then line 72.
LoadSettles(l) ==
    /\ l \in DOMAIN loads
    /\ ~loads[l].settled
    /\ LET result == _loadAllConfigs(server, online)
       IN  /\ loads' = [loads EXCEPT ![l] = result]
           /\ calls' = [c \in DOMAIN calls |->
                          IF calls[c].load = l THEN Call(l, result) ELSE calls[c]]
           /\ IF result.success
              THEN config' = result.config /\ UNCHANGED errors
              ELSE errors' = result.errors /\ UNCHANGED config
    /\ fetchCount' = [i \in DOMAIN fetchCount |->
                        IF i = 1 THEN fetchCount[i] ELSE fetchCount[i] + 1]
    /\ loadPromise' = 0
    /\ UNCHANGED <<server, online, nResets, resetAt>>
    /\ UNCHANGED storeVars

reset ==
    /\ nResets < MaxResets
    /\ config' = NoConfig
    /\ loadPromise' = 0
    /\ errors' = <<>>
    /\ nResets' = nResets + 1
    /\ resetAt' = Len(loads)
    /\ UNCHANGED <<server, online, loads, calls, fetchCount>>
    /\ UNCHANGED storeVars

\* The getters.
isLoaded == config.loaded
getErrors == errors
getConfigThrows == ~config.loaded
getEnumThrows == ~config.loaded

-----------------------------------------------------------------------------
(* The formula evaluator.  A formula is the sequence of its tokens (names, *)
(* integer literals, + - * / and parentheses), written with blanks between *)
(* them.  A JavaScript number is a fraction n/d here, or Infinity,         *)
(* -Infinity or NaN.                                                       *)

Id(name) == [t |-> "id", name |-> name]
Num(n) == [t |-> "num", n |-> n]
Op(sym) == [t |-> "op", sym |-> sym]

Fin(n, d) == [k |-> "fin", n |-> n, d |-> d]
Inf(sign) == [k |-> "inf", n |-> sign, d |-> 1]
NaN == [k |-> "nan", n |-> 0, d |-> 1]

Sign(v) == IF v.n > 0 THEN 1 ELSE IF v.n < 0 THEN -1 ELSE 0

Add(a, b) ==
    CASE a.k = "nan" \/ b.k = "nan" -> NaN
      [] a.k = "inf" /\ b.k = "inf" -> IF a.n = b.n THEN a ELSE NaN
      [] a.k = "inf" -> a
      [] b.k = "inf" -> b
      [] OTHER -> Fin(a.n * b.d + b.n * a.d, a.d * b.d)

Neg(a) == [a EXCEPT !.n = -a.n]

Mul(a, b) ==
    CASE a.k = "nan" \/ b.k = "nan" -> NaN
      [] a.k = "inf" \/ b.k = "inf" ->
           IF Sign(a) * Sign(b) = 0 THEN NaN ELSE Inf(Sign(a) * Sign(b))
      [] OTHER -> Fin(a.n * b.n, a.d * b.d)

Div(a, b) ==
    CASE a.k = "nan" \/ b.k = "nan" -> NaN
      [] a.k = "inf" -> IF b.k = "inf" THEN NaN
                        ELSE Inf(IF Sign(b) < 0 THEN -a.n ELSE a.n)
      [] b.k = "inf" -> Fin(0, 1)
      [] b.n = 0 -> IF a.n = 0 THEN NaN ELSE Inf(Sign(a))
      [] OTHER -> IF b.n > 0 THEN Fin(a.n * b.d, a.d * b.n)
                             ELSE Fin(-(a.n * b.d), a.d * (-b.n))

\* String(value) put in place of a name: a negative number brings its sign.
NumberTokens(value) ==
    IF value < 0 THEN <<Op("-"), Num(-value)>> ELSE <<Num(value)>>

\* expression.replace(/\bkey\b/g, String(value)), for every attribute
Substitute(formula, attributes) ==
    LET Flat[i \in 0..Len(formula)] ==
          IF i = 0 THEN <<>>
          ELSE Flat[i - 1] \o
               (IF formula[i].t = "id" /\ formula[i].name \in DOMAIN attributes
                THEN NumberTokens(attributes[formula[i].name])
                ELSE <<formula[i]>>)
    IN  Flat[Len(formula)]

\* /^[0-9+\-*/().\s]+$/: nothing but digits, operators, parentheses, blanks
SafeCharacters(expression) ==
    /\ Len(expression) > 0
    /\ \A i \in DOMAIN expression : expression[i].t # "id"

\* Function(`"use strict"; return (${expression})`)(): the value of the
\* arithmetic expression, or a thrown SyntaxError or TypeError.  A span of
\* tokens is split at its last binary operator outside parentheses, + and -
\* before * and /, as the grammar of JavaScript groups them.
Evaluate(expression) ==
    LET n == Len(expression)
        IsOp(k, syms) == expression[k].t = "op" /\ expression[k].sym \in syms
        Depth[k \in 1..n] ==
            IF k = 1 THEN 0
            ELSE Depth[k - 1] + (IF IsOp(k - 1, {"("}) THEN 1
                                 ELSE IF IsOp(k - 1, {")"}) THEN -1 ELSE 0)
        Binary(i, j, syms) ==
            { k \in (i + 1)..j :
                /\ IsOp(k, syms)
                /\ Depth[k] = Depth[i]
                /\ (expression[k - 1].t = "num" \/ IsOp(k - 1, {")"})) }
        Last(ks) == CHOOSE k \in ks : \A other \in ks : other <= k
        Threw == [threw |-> TRUE, val |-> NaN]
        Value(val) == [threw |-> FALSE, val |-> val]
        Val[span \in {"sum", "product", "unary"} \X (1..(n + 1)) \X (0..n)] ==
            LET level == span[1]
                i == span[2]
                j == span[3]
            IN  IF i > j THEN Threw
                ELSE IF level = "sum" /\ Binary(i, j, {"+", "-"}) # {}
                THEN LET k == Last(Binary(i, j, {"+", "-"}))
                         left == Val[<<"sum", i, k - 1>>]
                         right == Val[<<"product", k + 1, j>>]
                     IN  IF left.threw \/ right.threw THEN Threw
                         ELSE IF expression[k].sym = "+"
                         THEN Value(Add(left.val, right.val))
                         ELSE Value(Add(left.val, Neg(right.val)))
                ELSE IF level \in {"sum", "product"} /\ Binary(i, j, {"*", "/"}) # {}
                THEN LET k == Last(Binary(i, j, {"*", "/"}))
                         left == Val[<<"product", i, k - 1>>]
                         right == Val[<<"unary", k + 1, j>>]
                     IN  IF left.threw \/ right.threw THEN Threw
                         ELSE IF expression[k].sym = "*"
                         THEN Value(Mul(left.val, right.val))
                         ELSE Value(Div(left.val, right.val))
                ELSE IF IsOp(i, {"+", "-"})
                THEN LET operand == Val[<<"unary", i + 1, j>>]
                     IN  IF operand.threw THEN Threw
                         ELSE IF expression[i].sym = "-"
                         THEN Value(Neg(operand.val))
                         ELSE operand
                ELSE IF i = j /\ expression[i].t = "num"
                THEN Value(Fin(expression[i].n, 1))
                ELSE IF IsOp(i, {"("}) /\ IsOp(j, {")"})
                THEN Val[<<"sum", i + 1, j - 1>>]
                ELSE Threw
    IN  Val[<<"sum", 1, n>>]

\* What evaluateFormula returns: a count, or Infinity.
Count(n) == [finite |-> TRUE, n |-> n]
Infinity == [finite |-> FALSE, n |-> 0]

evaluateFormula(formula, attributes) ==
    LET expression == Substitute(formula, attributes)
    IN  IF ~SafeCharacters(expression) THEN Count(0)
        ELSE LET result == Evaluate(expression)
             IN  IF result.threw \/ result.val.k = "nan" THEN Count(0)
                 ELSE IF result.val.k = "inf"
                 THEN (IF result.val.n > 0 THEN Infinity ELSE Count(0))
                 ELSE LET floor == result.val.n \div result.val.d
                      IN  Count(IF floor > 0 THEN floor ELSE 0)

-----------------------------------------------------------------------------
(* The synchroniser (utils/config-sync).  A record's map is a function on  *)
(* its keys; a string that may also be an enum value object is a           *)
(* PlainValue or an ObjectValue.                                           *)

NoKeys == [k \in {} |-> 0]

\* obj[key] = value
Put(obj, key, value) ==
    [k \in DOMAIN obj \cup {key} |-> IF k = key THEN value ELSE obj[k]]

\* schema.default ?? 0
DefaultOf(schema) == IF schema.hasDefault THEN schema.default ELSE 0

\* current[def.id] ?? (def.schema.default ?? 0)
NumberFor(current, def) ==
    IF def.id \in DOMAIN current THEN current[def.id] ELSE DefaultOf(def.schema)

\* The CombatStatConfigs the loop of syncCombatStatsWithConfig assigns, in
\* order: both members of a pair, or the single stat.
StatConfigs(stats) ==
    Flatten([i \in DOMAIN stats |->
               IF stats[i].pair THEN <<stats[i].first, stats[i].second>>
                                ELSE <<stats[i]>>])

syncNumbers(current, defs) ==
    LET Synced[i \in 0..Len(defs)] ==
          IF i = 0 THEN NoKeys
          ELSE Put(Synced[i - 1], defs[i].id, NumberFor(current, defs[i]))
    IN  Synced[Len(defs)]

syncCombatStatsWithConfig(currentStats, cfg) ==
    syncNumbers(currentStats, StatConfigs(cfg.stats))

\* A synchroniser that starts from a copy of the record's attributes
\* instead of an empty object.
syncAttributesKeepingStale(currentAttributes, cfg) ==
    LET synced == syncNumbers(currentAttributes, cfg.attributes)
    IN  [k \in DOMAIN currentAttributes \cup DOMAIN synced |->
           IF k \in DOMAIN synced THEN synced[k] ELSE currentAttributes[k]]

syncAttributesWithConfig(currentAttributes, cfg) ==
    syncNumbers(currentAttributes, cfg.attributes)

\* JavaScript's truthiness of a string or object
Truthy(value) == value.obj \/ value.name # ""

\* The value syncCharacterInfoWithConfig gives one field.
InfoFor(currentInfo, fieldConfig, getEnumDefaultValue) ==
    IF fieldConfig.id \in DOMAIN currentInfo /\ Truthy(currentInfo[fieldConfig.id])
    THEN currentInfo[fieldConfig.id]
    ELSE IF fieldConfig.type = "enum"
    THEN getEnumDefaultValue[fieldConfig.enumRef.enumId]
    ELSE PlainValue("")

syncCharacterInfoWithConfig(currentInfo, cfg, getEnumDefaultValue) ==
    LET Synced[i \in 0..Len(cfg.fields)] ==
          IF i = 0 THEN NoKeys
          ELSE Put(Synced[i - 1], cfg.fields[i].id,
                   InfoFor(currentInfo, cfg.fields[i], getEnumDefaultValue))
    IN  Synced[Len(cfg.fields)]

\* The array syncInventorySlotsWithConfig gives one tab, for a finite count.
ResizeSlots(currentTabSlots, slotCount, defaultValue) ==
    IF Len(currentTabSlots) = slotCount THEN currentTabSlots
    ELSE IF Len(currentTabSlots) < slotCount
    THEN currentTabSlots \o [i \in 1..(slotCount - Len(currentTabSlots)) |-> defaultValue]
    ELSE SubSeq(currentTabSlots, 1, slotCount)

\* currentSlots[tabConfig.id] || []
TabSlots(currentSlots, tabId) ==
    IF tabId \in DOMAIN currentSlots THEN currentSlots[tabId] ELSE <<>>

\* Array(Infinity) throws a RangeError.
SlotsThrow(cfg, attributes) ==
    \E i \in DOMAIN cfg.tabs :
        ~evaluateFormula(cfg.tabs[i].slotFormula, attributes).finite

syncInventorySlotsWithConfig(currentSlots, cfg, attributes, getEnumDefaultValue) ==
    LET Synced[i \in 0..Len(cfg.tabs)] ==
          IF i = 0 THEN NoKeys
          ELSE LET tabConfig == cfg.tabs[i]
                   slotCount == evaluateFormula(tabConfig.slotFormula, attributes)
               IN  Put(Synced[i - 1], tabConfig.id,
                       ResizeSlots(TabSlots(currentSlots, tabConfig.id), slotCount.n,
                                   getEnumDefaultValue[tabConfig.itemEnumId]))
    IN  Synced[Len(cfg.tabs)]

\* The enum IDs a synchronisation looks up: those of the enum fields and of
\* the tabs.  A callback getEnumDefaultValue is a function on them.
FieldEnumIds(cfg) ==
    {cfg.fields[i].enumRef.enumId : i \in {j \in DOMAIN cfg.fields : cfg.fields[j].type = "enum"}}

TabEnumIds(cfg) == {cfg.tabs[i].itemEnumId : i \in DOMAIN cfg.tabs}

\* The default of the parameter getEnumDefaultValue: () => ''
NoEnumDefault(enumIds) == [enumId \in enumIds |-> PlainValue("")]

\* needsCombatStatsSync: the IDs of the configuration are collected, a pair
\* giving both of its members; true when the record has a key that is not
\* among them or lacks one of them.
needsCombatStatsSync(currentStats, cfg) ==
    LET configStatIds ==
            UNION { IF cfg.stats[i].pair
                    THEN {cfg.stats[i].first.id, cfg.stats[i].second.id}
                    ELSE {cfg.stats[i].id} : i \in DOMAIN cfg.stats }
        currentStatIds == DOMAIN currentStats
    IN  \/ \E statId \in currentStatIds : statId \notin configStatIds
        \/ \E statId \in configStatIds : statId \notin currentStatIds

\* A version of needsAttributesSync that compares the sizes only.
needsAttributesBySizeOnly(currentAttributes, cfg) ==
    Cardinality({cfg.attributes[i].id : i \in DOMAIN cfg.attributes})
        # Cardinality(DOMAIN currentAttributes)

\* needsAttributesSync: true when the two sets of IDs differ in size or an
\* ID of the configuration is not a key of the record.
needsAttributesSync(currentAttributes, cfg) ==
    LET configAttrIds == {cfg.attributes[i].id : i \in DOMAIN cfg.attributes}
        currentAttrIds == DOMAIN currentAttributes
    IN  \/ Cardinality(configAttrIds) # Cardinality(currentAttrIds)
        \/ \E attrId \in configAttrIds : attrId \notin currentAttrIds

needsCharacterInfoSync(currentInfo, cfg) ==
    LET configFieldIds == {cfg.fields[i].id : i \in DOMAIN cfg.fields}
        currentFieldIds == DOMAIN currentInfo
    IN  \/ \E fieldId \in currentFieldIds : fieldId \notin configFieldIds
        \/ \E fieldId \in configFieldIds : fieldId \notin currentFieldIds

\* needsInventorySlotsSync: true when the tab IDs differ in number, when a
\* tab of the configuration is not a key of the record, or when a tab's
\* array is not as long as its formula evaluates to (no array is as long as
\* Infinity).
needsInventorySlotsSync(currentSlots, cfg, attributes) ==
    LET configTabIds == {cfg.tabs[i].id : i \in DOMAIN cfg.tabs}
        currentTabIds == DOMAIN currentSlots
    IN  \/ Cardinality(configTabIds) # Cardinality(currentTabIds)
        \/ \E tabId \in configTabIds : tabId \notin currentTabIds
        \/ \E i \in DOMAIN cfg.tabs :
               LET expectedCount == evaluateFormula(cfg.tabs[i].slotFormula, attributes)
                   currentCount == Len(TabSlots(currentSlots, cfg.tabs[i].id))
               IN  ~expectedCount.finite \/ expectedCount.n # currentCount

-----------------------------------------------------------------------------
(* The character store.                                                    *)

\* A record with its four maps; the deprecated arrays equipmentSlots,
\* consumableSlots and experienceBank and the resource counters are empty,
\* as createEmptyCharacter makes them.
Character(attributes, combatStats, characterInfo, inventorySlots) ==
    [attributes |-> attributes, combatStats |-> combatStats,
     characterInfo |-> characterInfo, inventorySlots |-> inventorySlots,
     equipmentSlots |-> <<>>, consumableSlots |-> <<>>, experienceBank |-> <<>>,
     resourceCounters |-> <<>>]

createEmptyCharacter ==
    Character(NoKeys,
              [hp |-> 10, mp |-> 0, movementRange |-> 30, abilityBonus |-> 0,
               attackPower |-> 0, spellPower |-> 0, range |-> 5],
              [name |-> PlainValue(""),
               character_species |-> PlainValue("Human"),
               character_experience |-> PlainValue("Folk Hero")],
              [equipment |-> <<>>, consumables |-> <<>>, experience_bank |-> <<>>])

\* The value of a resource counter: a number, or a boolean (v is 0 or 1).
NumberValue(v) == [kind |-> "number", v |-> v]
BooleanValue(v) == [kind |-> "boolean", v |-> v]

ResourceCounter(id, name, type, value) ==
    [id |-> id, name |-> name, type |-> type, value |-> value]

ResourceCounterSchema(counter) ==
    /\ counter.name # ""
    /\ counter.type \in {"number", "boolean"}
    /\ counter.value.kind = counter.type

\* The refinements of CharacterSheetSchema on a deprecated array: it is
\* empty, or the attribute is not in the record, or its length is
\* Math.max(0, attribute).
DeprecatedLengthMatches(arr, attributes, key) ==
    \/ Len(arr) = 0
    \/ key \notin DOMAIN attributes
    \/ Len(arr) = (IF attributes[key] > 0 THEN attributes[key] ELSE 0)

\* validateCharacterSheet on a record that has every key: numbers in
\* attributes and combatStats, strings in characterInfo and inventorySlots,
\* well-formed resource counters, and the three refinements.
validateCharacterSheet(data) ==
    /\ \A k \in DOMAIN data.characterInfo : ~data.characterInfo[k].obj
    /\ \A k \in DOMAIN data.inventorySlots :
         \A i \in DOMAIN data.inventorySlots[k] : ~data.inventorySlots[k][i].obj
    /\ \A i \in DOMAIN data.resourceCounters :
         ResourceCounterSchema(data.resourceCounters[i])
    /\ DeprecatedLengthMatches(data.equipmentSlots, data.attributes, "STR")
    /\ DeprecatedLengthMatches(data.consumableSlots, data.attributes, "DEX")
    /\ DeprecatedLengthMatches(data.experienceBank, data.attributes, "INT")

\* configManager.getEnum(enumId) on a loaded manager
getEnum(cfg, enumId) ==
    LET found == {i \in DOMAIN cfg.enums.enums : cfg.enums.enums[i].id = enumId}
    IN  IF found = {} THEN [found |-> FALSE]
        ELSE [found |-> TRUE,
              def |-> cfg.enums.enums[CHOOSE i \in found : \A j \in found : i <= j]]

\* A helper that reads values[1] instead of values[0].
getEnumSecondValue(enumId) ==
    LET enumDef == getEnum(config, enumId)
    IN  IF enumDef.found /\ Len(enumDef.def.values) > 1 /\ Truthy(enumDef.def.values[2])
        THEN enumDef.def.values[2]
        ELSE PlainValue("")

\* The store's helper: getEnumById(enumId)?.values[0] || ''
getEnumDefaultValue(enumId) ==
    LET enumDef == getEnum(config, enumId)
    IN  IF enumDef.found /\ enumDef.def.values # <<>> /\ Truthy(enumDef.def.values[1])
        THEN enumDef.def.values[1]
        ELSE PlainValue("")

\* The helper as the callback handed to the synchroniser.
Helper(enumIds) == [enumId \in enumIds |-> getEnumDefaultValue(enumId)]

\* A call of a store operation: its name, its argument, whether it threw.
Did(name, arg, threw) == [name |-> name, arg |-> arg, threw |-> threw]

\* What syncWithAllConfigs makes of the record (it has not thrown).
SyncedWithAllConfigs(ch, attributesConfig, combatStatsConfig, inventoryConfig) ==
    [ch EXCEPT
       !.attributes = syncAttributesWithConfig(ch.attributes, attributesConfig),
       !.combatStats = syncCombatStatsWithConfig(ch.combatStats, combatStatsConfig),
       !.inventorySlots = syncInventorySlotsWithConfig(ch.inventorySlots, inventoryConfig,
                                                       ch.attributes,
                                                       Helper(TabEnumIds(inventoryConfig)))]

\* syncWithAllConfigs, called as the inventory section calls it: with the
\* documents of the loaded configuration.  getEnumById throws on a manager
\* that holds no configuration, Array(Infinity) throws a RangeError; the
\* store's state is then left as it was.
syncWithAllConfigs ==
    /\ IF ~config.loaded
       THEN /\ lastOp' = Did("syncWithAllConfigs", "", TRUE)
            /\ UNCHANGED <<character, _inventoryConfig>>
       ELSE IF SlotsThrow(config.inventory, character.attributes)
       THEN /\ lastOp' = Did("syncWithAllConfigs", "", TRUE)
            /\ UNCHANGED <<character, _inventoryConfig>>
       ELSE /\ character' = SyncedWithAllConfigs(character, config.attributes,
                                                 config.combatStats, config.inventory)
            /\ _inventoryConfig' = config.inventory
            /\ lastOp' = Did("syncWithAllConfigs", "", FALSE)
    /\ pre' = character
    /\ UNCHANGED managerVars

syncWithConfigs ==
    /\ config.loaded
    /\ character' =
         [character EXCEPT
            !.attributes = syncAttributesWithConfig(@, config.attributes),
            !.combatStats = syncCombatStatsWithConfig(@, config.combatStats)]
    /\ lastOp' = Did("syncWithConfigs", "", FALSE)
    /\ pre' = character
    /\ UNCHANGED <<_inventoryConfig, managerVars>>

\* syncCharacterInfoWithConfig applied to the record, with the store's
\* helper as getEnumDefaultValue or with the parameter left out.
syncCharacterInfo(withHelper) ==
    /\ config.loaded
    /\ character' =
         [character EXCEPT !.characterInfo =
            IF withHelper
            THEN syncCharacterInfoWithConfig(@, config.characterInfo,
                                             Helper(FieldEnumIds(config.characterInfo)))
            ELSE syncCharacterInfoWithConfig(@, config.characterInfo,
                                             NoEnumDefault(FieldEnumIds(config.characterInfo)))]
    /\ lastOp' = Did("syncCharacterInfo", withHelper, FALSE)
    /\ pre' = character
    /\ UNCHANGED <<_inventoryConfig, managerVars>>

\* Math.max(0, Math.min(4, Math.floor(value))) of a whole number
Clamp(value) == IF value < 0 THEN 0 ELSE IF value > 4 THEN 4 ELSE value

\* adjustArray of updateAttribute, for a length that is a number
adjustArray(arr, newLength, defaultValue) ==
    IF Len(arr) = newLength THEN arr
    ELSE IF Len(arr) < newLength
    THEN arr \o [i \in 1..(newLength - Len(arr)) |-> defaultValue]
    ELSE SubSeq(arr, 1, newLength)

\* A deprecated array after updateAttribute: adjusted to
\* Math.max(0, attributes[key]).  Of a record without the attribute the
\* length is NaN, which equals and exceeds no length, and slice(0, NaN)
\* is empty.
DeprecatedSlots(arr, attributes, key) ==
    IF key \notin DOMAIN attributes THEN <<>>
    ELSE adjustArray(arr, IF attributes[key] > 0 THEN attributes[key] ELSE 0,
                     PlainValue("None"))

\* updateAttribute(attribute, value).  The inventory arrays are resized
\* when the store holds an inventory configuration; getEnumById throws on a
\* manager that holds no configuration, Array(Infinity) throws a
\* RangeError, and the store's state is then left as it was.
updateAttribute(attribute, value) ==
    LET newAttributes == Put(character.attributes, attribute, Clamp(value))
        newInventorySlots ==
            IF _inventoryConfig # NoConfig
            THEN syncInventorySlotsWithConfig(character.inventorySlots, _inventoryConfig,
                                              newAttributes,
                                              Helper(TabEnumIds(_inventoryConfig)))
            ELSE character.inventorySlots
    IN  /\ IF /\ _inventoryConfig # NoConfig
              /\ (~config.loaded \/ SlotsThrow(_inventoryConfig, newAttributes))
           THEN /\ lastOp' = Did("updateAttribute", <<attribute, value>>, TRUE)
                /\ UNCHANGED character
           ELSE /\ character' =
                     [character EXCEPT
                        !.attributes = newAttributes,
                        !.equipmentSlots = DeprecatedSlots(@, newAttributes, "STR"),
                        !.consumableSlots = DeprecatedSlots(@, newAttributes, "DEX"),
                        !.experienceBank = DeprecatedSlots(@, newAttributes, "INT"),
                        !.inventorySlots = newInventorySlots]
                /\ lastOp' = Did("updateAttribute", <<attribute, value>>, FALSE)
        /\ pre' = character
        /\ UNCHANGED <<_inventoryConfig, managerVars>>

\* The four detection functions applied to the store's record and the
\* loaded configuration; they return their answers and assign nothing.
needsSync ==
    /\ config.loaded
    /\ lastOp' = Did("needsSync",
                     [attributes |-> needsAttributesSync(character.attributes,
                                                         config.attributes),
                      combatStats |-> needsCombatStatsSync(character.combatStats,
                                                           config.combatStats),
                      characterInfo |-> needsCharacterInfoSync(character.characterInfo,
                                                               config.characterInfo),
                      inventorySlots |-> needsInventorySlotsSync(character.inventorySlots,
                                                                 config.inventory,
                                                                 character.attributes)],
                     FALSE)
    /\ pre' = character
    /\ UNCHANGED <<character, _inventoryConfig, managerVars>>

\* A call of evaluateFormula(formula, attributes): what it returned.  The
\* function catches whatever the evaluation throws.
Evaluates(formula, attributes) ==
    /\ lastOp' = Did("evaluateFormula",
                     [formula |-> formula, attributes |-> attributes,
                      result |-> evaluateFormula(formula, attributes)],
                     FALSE)
    /\ pre' = character
    /\ UNCHANGED <<character, _inventoryConfig, managerVars>>

-----------------------------------------------------------------------------
(* validateAttributeValue.  A value is the number n/d, as in the formula   *)
(* evaluator; the numbers of a schema are integers.                         *)

IsInteger(value) == value.n % value.d = 0

\* value < bound, value > bound
Below(value, bound) == value.n < bound * value.d
Above(value, bound) == value.n > bound * value.d

\* value % step !== 0; a zero step gives NaN, which differs from 0
NotMultipleOf(value, step) ==
    LET size == IF step < 0 THEN -step ELSE step
    IN  size = 0 \/ value.n % (value.d * size) # 0

\* A validator that rejects the minimum itself.
validateAttributeValueAboveMinimum(attribute, value, dynamicMaxValue) ==
    LET schema == attribute.schema
    IN  /\ schema.type = "integer" => IsInteger(value)
        /\ schema.minimum.has => Above(value, schema.minimum.v)
        /\ (schema.maximum = "dynamic" /\ dynamicMaxValue.has)
              => ~Above(value, dynamicMaxValue.v)
        /\ schema.maximum = "number" => ~Above(value, schema.maximumValue)
        /\ schema.exclusiveMinimum.has => Above(value, schema.exclusiveMinimum.v)
        /\ schema.exclusiveMaximum.has => Below(value, schema.exclusiveMaximum.v)
        /\ schema.multipleOf.has => ~NotMultipleOf(value, schema.multipleOf.v)

\* A validator that does not look at the supplied cap.
validateAttributeValueWithoutCap(attribute, value, dynamicMaxValue) ==
    LET schema == attribute.schema
    IN  /\ schema.type = "integer" => IsInteger(value)
        /\ schema.minimum.has => ~Below(value, schema.minimum.v)
        /\ schema.maximum = "number" => ~Above(value, schema.maximumValue)
        /\ schema.exclusiveMinimum.has => Above(value, schema.exclusiveMinimum.v)
        /\ schema.exclusiveMaximum.has => Below(value, schema.exclusiveMaximum.v)
        /\ schema.multipleOf.has => ~NotMultipleOf(value, schema.multipleOf.v)

validateAttributeValue(attribute, value, dynamicMaxValue) ==
    LET schema == attribute.schema
    IN  IF schema.type = "integer" /\ ~IsInteger(value) THEN FALSE
        ELSE IF schema.minimum.has /\ Below(value, schema.minimum.v) THEN FALSE
        ELSE IF schema.maximum = "dynamic" /\ dynamicMaxValue.has
                /\ Above(value, dynamicMaxValue.v) THEN FALSE
        ELSE IF schema.maximum = "number" /\ Above(value, schema.maximumValue)
        THEN FALSE
        ELSE IF schema.exclusiveMinimum.has
                /\ ~Above(value, schema.exclusiveMinimum.v) THEN FALSE
        ELSE IF schema.exclusiveMaximum.has
                /\ ~Below(value, schema.exclusiveMaximum.v) THEN FALSE
        ELSE IF schema.multipleOf.has
                /\ NotMultipleOf(value, schema.multipleOf.v) THEN FALSE
        ELSE TRUE

\* A call of validateAttributeValue(attribute, value, dynamicMaxValue): what
\* it returned.
Validates(attribute, value, dynamicMaxValue) ==
    /\ lastOp' = Did("validateAttributeValue",
                     [attribute |-> attribute, value |-> value,
                      dynamicMaxValue |-> dynamicMaxValue,
                      result |-> validateAttributeValue(attribute, value,
                                                        dynamicMaxValue)],
                     FALSE)
    /\ pre' = character
    /\ UNCHANGED <<character, _inventoryConfig, managerVars>>

\* The members of the enum AttributeType.
AttributeType == {"STR", "DEX", "INT", "WIS", "CHA"}

\* handleAttributeChange(attrId, value) of the attributes section, for a
\* text that parseInt reads as the whole number `value`.  The section's
\* configuration is the attributes document of the loaded manager; the
\* handler returns without a call of the store when there is none, when
\* the attribute is not configured, when the value does not validate, or
\* when the ID is no member of AttributeType.
handleAttributeChange(attrId, value) ==
    /\ config.loaded
    /\ \E i \in DOMAIN config.attributes.attributes :
          /\ config.attributes.attributes[i].id = attrId
          /\ \A j \in 1..(i - 1) : config.attributes.attributes[j].id # attrId
          /\ validateAttributeValue(config.attributes.attributes[i],
                                    Fin(value, 1), Absent)
    /\ attrId \in AttributeType
    /\ updateAttribute(attrId, value)

-----------------------------------------------------------------------------

loadCharacter(data) ==
    /\ IF validateCharacterSheet(data)
       THEN character' = data
       ELSE UNCHANGED character
    /\ lastOp' = Did("loadCharacter", "", FALSE)
    /\ pre' = character
    /\ UNCHANGED <<_inventoryConfig, managerVars>>

\* addResourceCounter(name, type); nanoid() gives an ID that no counter of
\* the record has.
addResourceCounter(name, type) ==
    LET id == Len(character.resourceCounters) + 1
        value == IF type = "number" THEN NumberValue(0) ELSE BooleanValue(0)
    IN  /\ character' =
              [character EXCEPT
                 !.resourceCounters = Append(@, ResourceCounter(id, name, type, value))]
        /\ lastOp' = Did("addResourceCounter", <<name, type>>, FALSE)
        /\ pre' = character
        /\ UNCHANGED <<_inventoryConfig, managerVars>>

updateResourceCounter(id, value) ==
    /\ character' =
          [character EXCEPT
             !.resourceCounters =
                [i \in DOMAIN @ |->
                   IF @[i].id = id THEN [@[i] EXCEPT !.value = value] ELSE @[i]]]
    /\ lastOp' = Did("updateResourceCounter", <<id, value>>, FALSE)
    /\ pre' = character
    /\ UNCHANGED <<_inventoryConfig, managerVars>>

updateResourceCounterName(id, name) ==
    /\ character' =
          [character EXCEPT
             !.resourceCounters =
                [i \in DOMAIN @ |->
                   IF @[i].id = id THEN [@[i] EXCEPT !.name = name] ELSE @[i]]]
    /\ lastOp' = Did("updateResourceCounterName", <<id, name>>, FALSE)
    /\ pre' = character
    /\ UNCHANGED <<_inventoryConfig, managerVars>>

-----------------------------------------------------------------------------
(* Persistence: deserializeCharacter, and the application's two loads of a *)
(* persisted record.                                                        *)

PayloadKeys ==
    {"version", "level", "attributes", "combatStats", "characterInfo",
     "inventorySlots", "resourceCounters"}

\* A persisted text.  It is JSON or not; of the parsed object a key is left
\* out ("missing"), holds a falsy value such as null, 0 or '' ("falsy"),
\* or holds its value ("given"): for version '1.0.0', for level [], for the
\* other keys what `sheet` has.
Text(json, keys, sheet) == [json |-> json, keys |-> keys, sheet |-> sheet]

AllKeys(state) == [k \in PayloadKeys |-> state]

\* validateCharacterSheet(parsed).success: a key that is left out or falsy
\* fails its schema.
StrictlyValid(text) ==
    /\ \A k \in PayloadKeys : text.keys[k] = "given"
    /\ validateCharacterSheet(text.sheet)

\* A deserializer whose fallback asks for the keys to be present.
deserializeCharacterByPresence(text) ==
    IF ~text.json THEN [success |-> FALSE, error |-> "Parse error"]
    ELSE IF StrictlyValid(text) THEN [success |-> TRUE, data |-> text.sheet]
    ELSE IF \A k \in PayloadKeys : text.keys[k] # "missing"
    THEN [success |-> TRUE, data |-> text.sheet]
    ELSE [success |-> FALSE, error |-> "Validation failed"]

deserializeCharacter(text) ==
    IF ~text.json THEN [success |-> FALSE, error |-> "Parse error"]
    ELSE IF StrictlyValid(text) THEN [success |-> TRUE, data |-> text.sheet]
    ELSE IF \A k \in PayloadKeys : text.keys[k] = "given"
    THEN [success |-> TRUE, data |-> text.sheet]
    ELSE [success |-> FALSE, error |-> "Validation failed"]

\* The effect on mount: the persisted text is deserialized and the store
\* is asked to load its record, or the empty record when there is none.
AppMount(text) ==
    LET result == deserializeCharacter(text)
        data == IF result.success THEN result.data ELSE createEmptyCharacter
    IN  /\ character' = IF validateCharacterSheet(data) THEN data ELSE character
        /\ lastOp' = Did("AppMount", [text |-> text, result |-> result], FALSE)
        /\ pre' = character
        /\ UNCHANGED <<_inventoryConfig, managerVars>>

\* handleImportJSON on a picked file: the store is asked to load the record
\* when the text deserializes and the user confirms.
handleImportJSON(text, confirmed) ==
    LET result == deserializeCharacter(text)
    IN  /\ character' = IF result.success /\ confirmed
                             /\ validateCharacterSheet(result.data)
                        THEN result.data
                        ELSE character
        /\ lastOp' = Did("handleImportJSON",
                         [text |-> text, result |-> result,
                          confirmed |-> confirmed], FALSE)
        /\ pre' = character
        /\ UNCHANGED <<_inventoryConfig, managerVars>>

-----------------------------------------------------------------------------
(* The documents the model serves.                                         *)

Species == Enum("species", <<PlainValue("Human"), PlainValue("Elf")>>)
Items == Enum("items", <<ObjectValue("None"), ObjectValue("Rope")>>)
Hp == Stat("hp", TRUE, 10, "dynamic")
MaxHp == Stat("maxHp", TRUE, 10, "none")
Mp == Stat("mp", FALSE, 0, "dynamic")
MaxMp == Stat("maxMp", TRUE, 5, "none")
Ac == Stat("ac", FALSE, 0, "none")
Str == Attr("STR", TRUE, 2)
Gear == Tab("gear", "species", <<Id("STR")>>)

AttributesFiles ==
    { File(AttributesDoc("Attributes", <<Str>>)),
      File(AttributesDoc("Attributes", <<Str, Attr("x", FALSE, 0)>>)),
      File(AttributesDoc("Attributes", <<Str, Attr("hp", FALSE, 0)>>)),
      File(AttributesDoc("Attributes", <<Str, Str>>)),
      File(AttributesDoc("", <<>>)) }

EnumsFiles ==
    { File(EnumsDoc(<<Species>>)),
      File(EnumsDoc(<<Species, Items>>)),
      File(EnumsDoc(<<Species, Enum("x", <<PlainValue("A")>>)>>)),
      File(EnumsDoc(<<Species, Enum("items", <<PlainValue("A"), ObjectValue("A")>>)>>)),
      Missing }

CharacterInfoFiles ==
    { File(CharacterInfoDoc(<<TextField("name", FALSE, "")>>)),
      File(CharacterInfoDoc(<<TextField("name", FALSE, ""), EnumField("race", "species")>>)),
      File(CharacterInfoDoc(<<EnumField("race", "items")>>)),
      File(CharacterInfoDoc(<<TextField("x", FALSE, "")>>)),
      File(CharacterInfoDoc(<<TextField("name", FALSE, ""), EnumField("name", "species")>>)) }

CombatStatsFiles ==
    { File(CombatStatsDoc(<<Ac>>)),
      File(CombatStatsDoc(<<Pair(Hp, MaxHp)>>)),
      File(CombatStatsDoc(<<Ac, Pair(Hp, MaxHp)>>)),
      File(CombatStatsDoc(<<Pair(Hp, MaxHp), Pair(Mp, MaxMp)>>)),
      File(CombatStatsDoc(<<Stat("x", FALSE, 0, "none")>>)),
      File(CombatStatsDoc(<<Pair(Hp, Stat("x", FALSE, 0, "none"))>>)),
      File(CombatStatsDoc(<<Ac, Pair(Hp, Ac)>>)),
      File(CombatStatsDoc(<<Pair(Hp, Stat("maxHp", FALSE, 0, "dynamic"))>>)) }

InventoryFiles ==
    { File(InventoryDoc(<<Gear>>)),
      File(InventoryDoc(<<Tab("gear", "items", <<Id("STR")>>)>>)),
      File(InventoryDoc(<<Gear, Gear>>)),
      File(InventoryDoc(<<Tab("x", "species", <<Id("STR")>>)>>)),
      Missing }

LevelClassFiles ==
    { File(LevelClassDoc("species")),
      File(LevelClassDoc("classes")),
      Missing }

\* Every combination of the files above.
Servers ==
    { [attributes |-> a, enums |-> e, characterInfo |-> f, combatStats |-> s,
       inventory |-> t, levelClass |-> l] :
        a \in AttributesFiles, e \in EnumsFiles, f \in CharacterInfoFiles,
        s \in CombatStatsFiles, t \in InventoryFiles, l \in LevelClassFiles }

\* A site whose documents all load, and the edits deployed to it.
BaseServer ==
    [attributes |-> File(AttributesDoc("Attributes", <<Str>>)),
     enums |-> File(EnumsDoc(<<Species, Items>>)),
     characterInfo |-> File(CharacterInfoDoc(<<TextField("name", FALSE, "")>>)),
     combatStats |-> File(CombatStatsDoc(<<Ac, Pair(Hp, MaxHp)>>)),
     inventory |-> File(InventoryDoc(<<Gear>>)),
     levelClass |-> File(LevelClassDoc("species"))]

Deployments ==
    { [name |-> "characterInfo",
       file |-> File(CharacterInfoDoc(<<TextField("species", FALSE, "")>>))],
      [name |-> "characterInfo",
       file |-> File(CharacterInfoDoc(<<TextField("character_species", FALSE, "")>>))],
      [name |-> "levelClass", file |-> Missing],
      [name |-> "levelClass", file |-> File(LevelClassDoc("species"))] }

\* The sites the synchroniser is exercised against: every one loads.
Dex == Attr("DEX", FALSE, 0)
Bag == Tab("bag", "items", <<Id("STR"), Op("+"), Id("DEX")>>)
Pack == Tab("pack", "items", <<Id("STR"), Op("/"), Id("DEX")>>)

SyncServers ==
    { [attributes |-> File(AttributesDoc("Attributes", a)),
       enums |-> File(EnumsDoc(<<Species, Items>>)),
       characterInfo |-> File(CharacterInfoDoc(f)),
       combatStats |-> File(CombatStatsDoc(s)),
       inventory |-> File(InventoryDoc(t)),
       levelClass |-> File(LevelClassDoc("species"))] :
        a \in { <<Str>>, <<Str, Dex>> },
        f \in { <<TextField("name", FALSE, "")>>,
                <<TextField("name", TRUE, "Anon"), EnumField("race", "species")>>,
                <<EnumField("race", "items")>> },
        s \in { <<Ac>>, <<Ac, Pair(Hp, MaxHp)>> },
        t \in { <<Gear>>, <<Gear, Bag>>, <<Pack>> } }

\* The saved characters the application is opened with.
SheetAttributes ==
    { NoKeys, [STR |-> 0], [STR |-> 3, DEX |-> 1], [STR |-> 1, LCK |-> 4] }

SheetCombatStats ==
    { NoKeys, [ac |-> 0, hp |-> 25, maxHp |-> 10], [hp |-> -1, speed |-> 30] }

SheetCharacterInfo ==
    { NoKeys,
      [name |-> PlainValue(""), race |-> PlainValue("")],
      [name |-> PlainValue("Bob"), race |-> PlainValue("Elf"), age |-> PlainValue("3")] }

SheetInventorySlots ==
    { NoKeys,
      [gear |-> <<PlainValue("Rope"), PlainValue(""), PlainValue("Torch")>>],
      [gear |-> <<>>, bag |-> <<PlainValue("Rope")>>, old |-> <<PlainValue("Rope")>>],
      [gear |-> <<ObjectValue("Rope")>>] }

Sheets ==
    { Character(a, s, f, t) :
        a \in SheetAttributes, s \in SheetCombatStats,
        f \in SheetCharacterInfo, t \in SheetInventorySlots }

-----------------------------------------------------------------------------
(* The environment of the manager.                                         *)

\* The network goes down or comes back.
NetworkFlip ==
    /\ online' = ~online
    /\ UNCHANGED <<server, config, loadPromise, errors, loads, calls,
                   fetchCount, nResets, resetAt>>
    /\ UNCHANGED storeVars

\* A document is replaced on the server.
Deploy(d) ==
    /\ server[d.name] # d.file
    /\ server' = [server EXCEPT ![d.name] = d.file]
    /\ UNCHANGED <<online, config, loadPromise, errors, loads, calls,
                   fetchCount, nResets, resetAt>>
    /\ UNCHANGED storeVars

ManagerInit ==
    /\ online = TRUE
    /\ config = NoConfig
    /\ loadPromise = 0
    /\ errors = <<>>
    /\ loads = <<>>
    /\ calls = <<>>
    /\ fetchCount = [i \in DOMAIN DocNames |-> 0]
    /\ nResets = 0
    /\ resetAt = 0

StoreInit ==
    /\ character = createEmptyCharacter
    /\ _inventoryConfig = NoConfig
    /\ lastOp = Did("create", "", FALSE)
    /\ pre = createEmptyCharacter

Init ==
    /\ server = BaseServer
    /\ ManagerInit
    /\ StoreInit

Next ==
    \/ loadAllConfigs
    \/ \E l \in DOMAIN loads : LoadSettles(l)
    \/ reset
    \/ NetworkFlip
    \/ \E d \in Deployments : Deploy(d)

Spec == Init /\ [][Next]_vars

\* Every fetch is answered or fails in the end, so a load that has been
\* started is not pending for ever.
Fairness == \A l \in 1..MaxCalls : WF_vars(LoadSettles(l))

SpecLive == Init /\ [][Next]_vars /\ Fairness

\* The evaluator called on every formula of up to MaxLen tokens.
MaxLen == 3

FormulaTokens ==
    { Id("STR"), Id("DEX"), Id("WIS"), Num(0), Num(2),
      Op("+"), Op("-"), Op("*"), Op("/"), Op("("), Op(")") }

Formulas == UNION { [1..n -> FormulaTokens] : n \in 0..MaxLen }

FormulaAttributes ==
    { NoKeys, [STR |-> 4], [STR |-> 4, DEX |-> 0], [STR |-> 2, DEX |-> -5] }

NextFormula ==
    /\ lastOp.name = "create"
    /\ \E formula \in Formulas, attributes \in FormulaAttributes :
          Evaluates(formula, attributes)

SpecFormula == Init /\ [][NextFormula]_vars

\* The validator called on every schema below and on the values -1, -1/2,
\* 0, 1/2, ... up to MaxValue.
MaxValue == 5

ValidatedSchemas ==
    { [type |-> type, hasDefault |-> FALSE, default |-> 0,
       minimum |-> minimum, maximum |-> maximum[1], maximumValue |-> maximum[2],
       exclusiveMinimum |-> exclusiveMinimum,
       exclusiveMaximum |-> exclusiveMaximum, multipleOf |-> multipleOf] :
        type \in {"integer", "number"},
        minimum \in {Absent, Present(0), Present(2)},
        maximum \in {<<"none", 0>>, <<"dynamic", 0>>, <<"number", 1>>,
                     <<"number", 4>>},
        exclusiveMinimum \in {Absent, Present(0)},
        exclusiveMaximum \in {Absent, Present(4)},
        multipleOf \in {Absent, Present(2)} }

ValidatedAttributes ==
    { [id |-> "STR", label |-> "Label", schema |-> schema] :
        schema \in ValidatedSchemas }

ValidatedValues == { Fin(n, 2) : n \in -2..(2 * MaxValue) }

DynamicMaxValues == { Absent, Present(3) }

NextValidator ==
    /\ lastOp.name = "create"
    /\ \E attribute \in ValidatedAttributes, value \in ValidatedValues,
          dynamicMaxValue \in DynamicMaxValues :
          Validates(attribute, value, dynamicMaxValue)

SpecValidator == Init /\ [][NextValidator]_vars

\* The persisted texts: every key given, one key left out, one key falsy,
\* around a record that is valid, one whose slots hold objects, one whose
\* deprecated array is too short, and one with a nameless counter.
PersistedSheets ==
    { createEmptyCharacter,
      Character([STR |-> 3], NoKeys, [name |-> PlainValue("Bob")],
                [gear |-> <<PlainValue("Rope")>>]),
      Character([STR |-> 3], NoKeys, NoKeys, [gear |-> <<ObjectValue("Rope")>>]),
      [Character([STR |-> 3], NoKeys, NoKeys, NoKeys)
         EXCEPT !.equipmentSlots = <<PlainValue("None")>>],
      [Character(NoKeys, NoKeys, NoKeys, NoKeys)
         EXCEPT !.resourceCounters =
                   <<ResourceCounter(1, "", "number", NumberValue(0))>>] }

PersistedKeys ==
    {AllKeys("given")}
    \cup { [AllKeys("given") EXCEPT ![k] = state] :
             k \in PayloadKeys, state \in {"missing", "falsy"} }

PersistedTexts ==
    { Text(json, keys, sheet) :
        json \in BOOLEAN, keys \in PersistedKeys, sheet \in PersistedSheets }

\* The application is opened on a persisted text, and then a file is
\* imported.
NextPersist ==
    \/ (lastOp.name = "create" /\ \E text \in PersistedTexts : AppMount(text))
    \/ /\ lastOp.name = "AppMount"
       /\ \E text \in PersistedTexts, confirmed \in BOOLEAN :
             handleImportJSON(text, confirmed)

SpecPersist == Init /\ [][NextPersist]_vars

\* The store under the resource-counter section: a saved character is
\* loaded once, and up to MaxCounters counters are added, renamed and set.
MaxCounters == 2

CounterNames == {"", "Rage"}

CounterValues == {NumberValue(3), BooleanValue(1)}

NextStore ==
    \/ (lastOp.name = "create" /\ \E data \in PersistedSheets : loadCharacter(data))
    \/ /\ Len(character.resourceCounters) < MaxCounters
       /\ \E name \in CounterNames, type \in {"number", "boolean"} :
             addResourceCounter(name, type)
    \/ \E id \in 1..MaxCounters, value \in CounterValues :
          updateResourceCounter(id, value)
    \/ \E id \in 1..MaxCounters, name \in CounterNames :
          updateResourceCounterName(id, name)

SpecStore == Init /\ [][NextStore]_vars

\* One load of each combination of documents.
InitDocs ==
    /\ server \in Servers
    /\ ManagerInit
    /\ StoreInit

NextDocs ==
    \/ (calls = <<>> /\ loadAllConfigs)
    \/ \E l \in DOMAIN loads : LoadSettles(l)

SpecDocs == InitDocs /\ [][NextDocs]_vars

\* The edits the attributes section makes: below, within and above 0..4.
EditedAttributes == {"STR", "DEX"}
EditedValues == {-1, 3, 9}

EditServers ==
    { [attributes |-> File(AttributesDoc("Attributes", a)),
       enums |-> File(EnumsDoc(<<Species, Items>>)),
       characterInfo |-> File(CharacterInfoDoc(<<TextField("name", FALSE, "")>>)),
       combatStats |-> File(CombatStatsDoc(<<Ac>>)),
       inventory |-> File(InventoryDoc(t)),
       levelClass |-> File(LevelClassDoc("species"))] :
        a \in { <<Str>>, <<Str, Dex>> },
        t \in { <<Gear>>, <<Gear, Bag>>, <<Pack>> } }

EditSheets ==
    { Character(a, NoKeys, NoKeys, t) :
        a \in SheetAttributes, t \in SheetInventorySlots }

\* The application opened on a site that loads: the saved character is
\* loaded once, the configuration is loaded, and the sections synchronise.
InitSync ==
    /\ server \in SyncServers
    /\ ManagerInit
    /\ StoreInit

NextSync ==
    \/ (calls = <<>> /\ loadAllConfigs)
    \/ \E l \in DOMAIN loads : LoadSettles(l)
    \/ (lastOp.name = "create" /\ \E data \in Sheets : loadCharacter(data))
    \/ syncWithAllConfigs
    \/ syncWithConfigs
    \/ \E withHelper \in BOOLEAN : syncCharacterInfo(withHelper)
    \/ needsSync

SpecSync == InitSync /\ [][NextSync]_vars

\* The application with the attributes section: the configuration is loaded,
\* a saved character is opened, the inventory section synchronises and the
\* user edits attributes, in any order.
InitEdit ==
    /\ server \in EditServers
    /\ ManagerInit
    /\ StoreInit

NextEdit ==
    \/ (calls = <<>> /\ loadAllConfigs)
    \/ \E l \in DOMAIN loads : LoadSettles(l)
    \/ (lastOp.name = "create" /\ \E data \in EditSheets : loadCharacter(data))
    \/ syncWithAllConfigs
    \/ \E attribute \in EditedAttributes, value \in EditedValues :
          updateAttribute(attribute, value)
    \/ \E attrId \in EditedAttributes, value \in EditedValues :
          handleAttributeChange(attrId, value)

SpecEdit == InitEdit /\ [][NextEdit]_vars

-----------------------------------------------------------------------------
(* The properties of the configuration manager.                            *)

\* The documents as the server holds them, when every one is there.
Served(name) == server[name].json

AllDocumentsServed == \A i \in DOMAIN DocNames : server[DocNames[i]].found

\* Every document is fetched and passes its own schema.
AllDocumentsPass ==
    /\ online
    /\ AllDocumentsServed
    /\ \A i \in DOMAIN DocNames : SchemaIssues(DocNames[i], Served(DocNames[i])) = <<>>

\* Every enum reference of the served documents names a served enumeration.
AllReferencesResolve ==
    LET enumIds == {Served("enums").enums[i].id : i \in DOMAIN Served("enums").enums}
        fields == Served("characterInfo").fields
        tabs == Served("inventory").tabs
    IN  /\ \A i \in DOMAIN fields :
             fields[i].type = "enum" => fields[i].enumRef.enumId \in enumIds
        /\ \A i \in DOMAIN tabs : tabs[i].itemEnumId \in enumIds
        /\ Served("levelClass").classEnum.enumId \in enumIds

\* The IDs of a configuration: enumerations, attributes, info fields, combat
\* stats (a pair gives the IDs of both members) and inventory tabs.
AllIds(attributes, enums, characterInfo, combatStats, inventory) ==
    [i \in DOMAIN enums.enums |-> enums.enums[i].id]
    \o [i \in DOMAIN attributes.attributes |-> attributes.attributes[i].id]
    \o [i \in DOMAIN characterInfo.fields |-> characterInfo.fields[i].id]
    \o Flatten([i \in DOMAIN combatStats.stats |->
                  IF combatStats.stats[i].pair
                  THEN <<combatStats.stats[i].first.id, combatStats.stats[i].second.id>>
                  ELSE <<combatStats.stats[i].id>>])
    \o [i \in DOMAIN inventory.tabs |-> inventory.tabs[i].id]

ServedIds ==
    AllIds(Served("attributes"), Served("enums"), Served("characterInfo"),
           Served("combatStats"), Served("inventory"))

\* The manager's uniqueness check reports nothing on the served documents.
NoCollisionFound ==
    validateGlobalIdUniqueness(Served("attributes"), Served("enums"),
        Served("characterInfo"), Served("combatStats"), Served("inventory")) = <<>>

\* Load l completes in this step.
Completes(l) == ~loads[l].settled /\ loads'[l].settled

\* C1: a load completes with success only if all six documents passed their
\* own validation, every enum reference resolved and no ID collision was
\* found; in every other case it completes with a non-empty error list and
\* the manager holds no cached configuration at that moment.
C1_SuccessOnlyIfAllChecksPass ==
    [][\A l \in DOMAIN loads :
         Completes(l) =>
           IF loads'[l].success
           THEN AllDocumentsPass /\ AllReferencesResolve /\ NoCollisionFound
           ELSE loads'[l].errors # <<>> /\ ~config'.loaded]_vars

\* C2: whenever loadAll has returned success, the IDs of enumerations,
\* attributes, info fields, combat stats (both members of a pair) and
\* inventory tabs of the resolved configuration are pairwise distinct.
C2_ResolvedIdsDistinct ==
    \A c \in DOMAIN calls :
        (calls[c].result.settled /\ calls[c].result.success) =>
            LET cfg == calls[c].result.config
            IN  NoDuplicates(AllIds(cfg.attributes, cfg.enums, cfg.characterInfo,
                                    cfg.combatStats, cfg.inventory))

\* C3: when all six served documents pass their validators, every enum
\* reference resolves and all IDs (pairs flattened) are distinct, a completed
\* loadAll has returned success, whatever mix of single and paired stats.
C3_ValidDocumentsLoad ==
    \A c \in DOMAIN calls :
        (/\ calls[c].result.settled
         /\ AllDocumentsPass
         /\ AllReferencesResolve
         /\ NoDuplicates(ServedIds)) => calls[c].result.success

\* C4: while the first load is in flight, every loadAll call made so far
\* shares that load and no document has been fetched more than once; calls
\* that share a load receive the same result.
C4_CallsShareOneLoad ==
    /\ (loads # <<>> /\ ~loads[1].settled) =>
          /\ \A c \in DOMAIN calls : calls[c].load = 1
          /\ \A i \in DOMAIN fetchCount : fetchCount[i] <= 1
    /\ \A c, d \in DOMAIN calls :
          (calls[c].load = calls[d].load /\ calls[c].load # 0) =>
              calls[c].result = calls[d].result

\* C5: once a configuration is cached it stays the same one until reset(),
\* a loadAll call made meanwhile returns it without any fetch, and the first
\* loadAll call after a reset() starts a load.
C5_CachedUntilReset ==
    [][/\ (config.loaded /\ config'.loaded) => config' = config
       /\ (config.loaded /\ Len(calls') > Len(calls)) =>
             /\ calls'[Len(calls')].result = Success(config)
             /\ fetchCount' = fetchCount
       /\ (nResets > 0 /\ Len(loads) = resetAt /\ Len(calls') > Len(calls)) =>
             /\ Len(loads') = Len(loads) + 1
             /\ fetchCount'[1] = fetchCount[1] + 1]_vars

-----------------------------------------------------------------------------
(* The properties of the synchroniser.                                     *)

AttributeIds(cfg) == {cfg.attributes[i].id : i \in DOMAIN cfg.attributes}

\* The IDs of the stats, a pair giving both of its members.
CombatStatIds(cfg) ==
    UNION {IF cfg.stats[i].pair
           THEN {cfg.stats[i].first.id, cfg.stats[i].second.id}
           ELSE {cfg.stats[i].id} : i \in DOMAIN cfg.stats}

\* The schema of the stat with this ID, single or member of a pair.
CombatStatSchema(cfg, id) ==
    LET i == CHOOSE i \in DOMAIN cfg.stats :
                 IF cfg.stats[i].pair
                 THEN id \in {cfg.stats[i].first.id, cfg.stats[i].second.id}
                 ELSE cfg.stats[i].id = id
    IN  IF ~cfg.stats[i].pair THEN cfg.stats[i].schema
        ELSE IF cfg.stats[i].first.id = id THEN cfg.stats[i].first.schema
        ELSE cfg.stats[i].second.schema

FieldIds(cfg) == {cfg.fields[i].id : i \in DOMAIN cfg.fields}
TabIds(cfg) == {cfg.tabs[i].id : i \in DOMAIN cfg.tabs}

\* The first value of the enumeration with this ID.
FirstEnumValue(enumId) ==
    LET i == CHOOSE i \in DOMAIN config.enums.enums : config.enums.enums[i].id = enumId
    IN  config.enums.enums[i].values[1]

FullySynced == lastOp.name = "syncWithAllConfigs" /\ ~lastOp.threw
NumbersSynced == lastOp.name \in {"syncWithAllConfigs", "syncWithConfigs"} /\ ~lastOp.threw
InfoSynced == lastOp.name = "syncCharacterInfo"

\* C6: a record that a full synchronisation has produced is left as it is
\* by a second one against the same configuration, and an info map that
\* synchronisation has produced is left as it is by a second one.
C6_FullSyncIdempotent ==
    /\ FullySynced =>
         /\ ~SlotsThrow(config.inventory, character.attributes)
         /\ SyncedWithAllConfigs(character, config.attributes, config.combatStats,
                                 config.inventory) = character
    /\ InfoSynced =>
         syncCharacterInfoWithConfig(character.characterInfo, config.characterInfo,
                                     Helper(FieldEnumIds(config.characterInfo)))
             = character.characterInfo

\* C7: after a full synchronisation every tab's slot array is as long as
\* the tab's formula evaluates to on the attributes of the resulting record.
C7_SlotsFromSyncedAttributes ==
    FullySynced =>
        \A i \in DOMAIN config.inventory.tabs :
            LET tab == config.inventory.tabs[i]
                count == evaluateFormula(tab.slotFormula, character.attributes)
            IN  count.finite /\ Len(character.inventorySlots[tab.id]) = count.n

\* C8: after synchronisation the keys of each synchronised category are
\* exactly the configuration's: attribute IDs, combat stat IDs with both
\* members of every pair, info field IDs, inventory tab IDs.
C8_KeysAreTheConfigurations ==
    /\ NumbersSynced =>
         /\ DOMAIN character.attributes = AttributeIds(config.attributes)
         /\ DOMAIN character.combatStats = CombatStatIds(config.combatStats)
    /\ FullySynced => DOMAIN character.inventorySlots = TabIds(config.inventory)
    /\ InfoSynced => DOMAIN character.characterInfo = FieldIds(config.characterInfo)

\* A full synchronisation that dropped a stale attribute, a stale stat and a
\* stale tab, and added the members of a pair.
C8_Witness ==
    /\ FullySynced
    /\ "LCK" \in DOMAIN pre.attributes
    /\ "speed" \in DOMAIN pre.combatStats
    /\ "old" \in DOMAIN pre.inventorySlots
    /\ "maxHp" \in DOMAIN character.combatStats
    /\ "maxHp" \notin DOMAIN pre.combatStats

\* C9: synchronisation keeps the value of every key the record and the
\* configuration share, whatever the value: 0 for numbers, the empty string
\* for text and enum info fields, pair members each for itself, unclamped.
C9_ExistingValuesPreserved ==
    /\ NumbersSynced =>
         /\ \A k \in DOMAIN pre.attributes \cap AttributeIds(config.attributes) :
                character.attributes[k] = pre.attributes[k]
         /\ \A k \in DOMAIN pre.combatStats \cap CombatStatIds(config.combatStats) :
                character.combatStats[k] = pre.combatStats[k]
    /\ InfoSynced =>
         \A k \in DOMAIN pre.characterInfo \cap FieldIds(config.characterInfo) :
             character.characterInfo[k] = pre.characterInfo[k]

\* The defaults of absent attributes and stats: the schema's default, or 0.
NumberDefaultsApplied ==
    NumbersSynced =>
        /\ \A i \in DOMAIN config.attributes.attributes :
             LET attr == config.attributes.attributes[i]
             IN  attr.id \notin DOMAIN pre.attributes =>
                     character.attributes[attr.id] =
                         (IF attr.schema.hasDefault THEN attr.schema.default ELSE 0)
        /\ \A id \in CombatStatIds(config.combatStats) \ DOMAIN pre.combatStats :
             LET schema == CombatStatSchema(config.combatStats, id)
             IN  character.combatStats[id] =
                     (IF schema.hasDefault THEN schema.default ELSE 0)

-----------------------------------------------------------------------------
(* Properties of inventory synchronisation and of detection.               *)

\* A step that calls inventory synchronisation on a loaded manager:
\* syncWithAllConfigs, or updateAttribute in a store that holds an
\* inventory configuration.
InventorySyncStep ==
    /\ managerVars' = managerVars
    /\ config.loaded
    /\ \/ lastOp'.name = "syncWithAllConfigs"
       \/ lastOp'.name = "updateAttribute" /\ _inventoryConfig # NoConfig

\* The configuration and the attributes the step hands to the synchroniser.
SyncStepConfig ==
    IF lastOp'.name = "syncWithAllConfigs" THEN config.inventory ELSE _inventoryConfig

SyncStepAttributes ==
    IF lastOp'.name = "syncWithAllConfigs" THEN character.attributes
    ELSE Put(character.attributes, lastOp'.arg[1], Clamp(lastOp'.arg[2]))

\* new is old cut or padded to n entries: the entries old has among the
\* first n are kept in place, the entries beyond old are defaultValue.
Resized(old, new, n, defaultValue) ==
    /\ Len(new) = n
    /\ \A i \in 1..n : new[i] = (IF i <= Len(old) THEN old[i] ELSE defaultValue)

\* C11: inventory synchronisation leaves every tab of the configuration
\* with n = evaluateFormula(tab.slotFormula, attributes) entries: the first
\* n of the existing ones, unchanged and in order, followed where the
\* existing array is shorter by the first value of the tab's enumeration.
C11_SlotsResizedToFormula ==
    [][InventorySyncStep =>
         \A i \in DOMAIN SyncStepConfig.tabs :
             LET tab == SyncStepConfig.tabs[i]
                 n == evaluateFormula(tab.slotFormula, SyncStepAttributes)
             IN  /\ n.finite
                 /\ tab.id \in DOMAIN character'.inventorySlots
                 /\ Resized(TabSlots(character.inventorySlots, tab.id),
                            character'.inventorySlots[tab.id], n.n,
                            FirstEnumValue(tab.itemEnumId))]_vars

\* The answers detection gives in this state.
Detected ==
    [attributes |-> needsAttributesSync(character.attributes, config.attributes),
     combatStats |-> needsCombatStatsSync(character.combatStats, config.combatStats),
     characterInfo |-> needsCharacterInfoSync(character.characterInfo,
                                              config.characterInfo),
     inventorySlots |-> needsInventorySlotsSync(character.inventorySlots,
                                                config.inventory, character.attributes)]

\* A tab whose array is not as long as its formula evaluates to.
SomeLengthDiffers ==
    \E i \in DOMAIN config.inventory.tabs :
        LET tab == config.inventory.tabs[i]
            n == evaluateFormula(tab.slotFormula, character.attributes)
        IN  ~(n.finite /\ Len(TabSlots(character.inventorySlots, tab.id)) = n.n)

\* C12: needsAttributesSync, needsCombatStatsSync and needsCharacterInfoSync
\* answer true exactly when the record's keys are not the configuration's
\* IDs (both members of every pair); needsInventorySlotsSync answers true
\* whenever some tab's array is not as long as its formula evaluates to;
\* a detection leaves the record as it was.
C12_DetectionExact ==
    config.loaded =>
        /\ Detected.attributes
              <=> DOMAIN character.attributes # AttributeIds(config.attributes)
        /\ Detected.combatStats
              <=> DOMAIN character.combatStats # CombatStatIds(config.combatStats)
        /\ Detected.characterInfo
              <=> DOMAIN character.characterInfo # FieldIds(config.characterInfo)
        /\ SomeLengthDiffers => Detected.inventorySlots
        /\ lastOp.name = "needsSync" => lastOp.arg = Detected /\ character = pre

\* A detection on a record with as many attributes as the configuration
\* but other ones, whose tabs are the configuration's with one array of
\* another length, and whose info fields are the configuration's.
C12_Witness ==
    /\ lastOp.name = "needsSync"
    /\ lastOp.arg.attributes
    /\ Cardinality(DOMAIN character.attributes)
         = Cardinality(AttributeIds(config.attributes))
    /\ lastOp.arg.inventorySlots
    /\ DOMAIN character.inventorySlots = TabIds(config.inventory)
    /\ ~lastOp.arg.characterInfo
    /\ "maxHp" \in DOMAIN character.combatStats

-----------------------------------------------------------------------------
(* Properties of the errors a load reports.                                *)

\* The errors of a list that carry this document's name.
ErrorsOf(errs, name) ==
    SelectSeq(errs, LAMBDA e : e.configName = name)

\* The document is served and does not pass its own schema.
FailsValidation(name) ==
    server[name].found /\ SchemaIssues(name, Served(name)) # <<>>

\* C13: a completed load has fetched each of the six documents once,
\* whichever of them failed; its error list holds, for every document that
\* fails its schema, an error for each of the issues, and for every
\* document that could not be fetched exactly one error, whose path is
\* empty; with any failing document the load has failed.
C13_FailuresAccumulate ==
    \A l \in DOMAIN loads :
        loads[l].settled =>
            /\ \A i \in DOMAIN DocNames : fetchCount[i] = 1
            /\ \A i \in DOMAIN DocNames :
                 LET name == DocNames[i]
                     own == ErrorsOf(loads[l].errors, name)
                 IN  /\ ~server[name].found =>
                          /\ Len(own) = 1
                          /\ own[1].path = ""
                          /\ ~loads[l].success
                     /\ FailsValidation(name) =>
                          /\ \A k \in DOMAIN SchemaIssues(name, Served(name)) :
                                 \E e \in DOMAIN own :
                                     /\ own[e].path = SchemaIssues(name, Served(name))[k].path
                                     /\ own[e].message
                                          = SchemaIssues(name, Served(name))[k].message
                          /\ ~loads[l].success

\* A completed load whose first document fails its schema and whose
\* second and last documents are not served.
C13_Witness ==
    /\ loads # <<>>
    /\ loads[1].settled
    /\ FailsValidation("attributes")
    /\ ~server["enums"].found
    /\ ~server["levelClass"].found
    /\ ErrorsOf(loads[1].errors, "levelClass") # <<>>

\* The document is served and passes its own schema.
LoadsAlone(name) ==
    server[name].found /\ SchemaIssues(name, Served(name)) = <<>>

\* The documents whose IDs must be distinct, in the order of the check.
CheckedDocs == <<"enums", "attributes", "characterInfo", "combatStats", "inventory">>

Occurrence(id, configName, path) == [id |-> id, configName |-> configName, path |-> path]

\* The IDs of one served document with their places; a paired stat gives
\* the IDs of both members, at the pair's place.
Occurrences(name) ==
    LET json == Served(name)
    IN  CASE name = "enums" ->
               [i \in DOMAIN json.enums |->
                  <<Occurrence(json.enums[i].id, name, "enums." \o Idx(i) \o ".id")>>]
          [] name = "attributes" ->
               [i \in DOMAIN json.attributes |->
                  <<Occurrence(json.attributes[i].id, name,
                               "attributes." \o Idx(i) \o ".id")>>]
          [] name = "characterInfo" ->
               [i \in DOMAIN json.fields |->
                  <<Occurrence(json.fields[i].id, name, "fields." \o Idx(i) \o ".id")>>]
          [] name = "combatStats" ->
               [i \in DOMAIN json.stats |->
                  IF json.stats[i].pair
                  THEN <<Occurrence(json.stats[i].first.id, name,
                                    "stats." \o Idx(i) \o ".id"),
                         Occurrence(json.stats[i].second.id, name,
                                    "stats." \o Idx(i) \o ".id")>>
                  ELSE <<Occurrence(json.stats[i].id, name,
                                    "stats." \o Idx(i) \o ".id")>>]
          [] name = "inventory" ->
               [i \in DOMAIN json.tabs |->
                  <<Occurrence(json.tabs[i].id, name, "tabs." \o Idx(i) \o ".id")>>]

\* C14: when a load completes and some document has failed its own
\* validation, every ID that two documents which loaded have in common is
\* reported among the load's errors, at its place in the later document.
C14_UniquenessDespiteFailure ==
    \A l \in DOMAIN loads :
        (loads[l].settled /\ \E i \in DOMAIN DocNames : FailsValidation(DocNames[i])) =>
            \A a, b \in DOMAIN CheckedDocs :
                (a < b /\ LoadsAlone(CheckedDocs[a]) /\ LoadsAlone(CheckedDocs[b])) =>
                    \A first \in Range(Flatten(Occurrences(CheckedDocs[a]))),
                       later \in Range(Flatten(Occurrences(CheckedDocs[b]))) :
                        first.id = later.id =>
                            \E e \in Range(loads[l].errors) :
                                e.configName = later.configName /\ e.path = later.path

Reference(enumId, configName, path) ==
    [enumId |-> enumId, configName |-> configName, path |-> path]

\* The enum references of one served document with their places: the enum
\* info fields, the inventory tabs, the class enumeration.
References(name) ==
    LET json == Served(name)
    IN  CASE name = "characterInfo" ->
               { Reference(json.fields[i].enumRef.enumId, name,
                           "fields." \o json.fields[i].id \o ".enumRef.enumId") :
                   i \in {j \in DOMAIN json.fields : json.fields[j].type = "enum"} }
          [] name = "inventory" ->
               { Reference(json.tabs[i].itemEnumId, name,
                           "tabs." \o Idx(i) \o ".itemEnumId") : i \in DOMAIN json.tabs }
          [] name = "levelClass" ->
               { Reference(json.classEnum.enumId, name, "classEnum.enumId") }

ReferringDocs == {"characterInfo", "inventory", "levelClass"}

\* The places in a list of errors that report this reference.
ReportsOf(errs, ref) ==
    { e \in DOMAIN errs :
        /\ errs[e].configName = ref.configName
        /\ errs[e].path = ref.path
        /\ errs[e].message = "Referenced enum '" \o ref.enumId
                                \o "' not found in enums configuration" }

\* C15: when a load completes and the enumerations document and a
\* referring document have both loaded, each enum reference of that
\* document that names no loaded enumeration has exactly one error, which
\* names the ID and the referring document, and the load has failed; a
\* reference that names a loaded enumeration has no error.
C15_UnresolvedReferencesReported ==
    \A l \in DOMAIN loads :
        (loads[l].settled /\ LoadsAlone("enums")) =>
            \A name \in {d \in ReferringDocs : LoadsAlone(d)} :
                \A ref \in References(name) :
                    IF ref.enumId \in {Served("enums").enums[i].id :
                                         i \in DOMAIN Served("enums").enums}
                    THEN \A e \in DOMAIN loads[l].errors :
                             ~(/\ loads[l].errors[e].configName = name
                               /\ loads[l].errors[e].path = ref.path)
                    ELSE /\ Cardinality(ReportsOf(loads[l].errors, ref)) = 1
                         /\ ~loads[l].success

\* A completed load with an enum info field and a class enumeration that
\* name no loaded enumeration, and a tab that names one.
C15_Witness ==
    /\ loads # <<>>
    /\ loads[1].settled
    /\ LoadsAlone("enums") /\ LoadsAlone("characterInfo")
    /\ LoadsAlone("inventory") /\ LoadsAlone("levelClass")
    /\ \E ref \in References("characterInfo") :
           ReportsOf(loads[1].errors, ref) # {}
    /\ \E ref \in References("levelClass") :
           ReportsOf(loads[1].errors, ref) # {}
    /\ \A ref \in References("inventory") :
           ReportsOf(loads[1].errors, ref) = {}

\* The ID occurrences of the five checked documents, in the order of the
\* check: enumerations, attributes, info fields, combat stats, tabs.
AllOccurrences ==
    Flatten([d \in DOMAIN CheckedDocs |-> Flatten(Occurrences(CheckedDocs[d]))])

\* The first place of the list that holds this ID.
FirstOccurrence(occ, id) ==
    occ[CHOOSE i \in DOMAIN occ :
            occ[i].id = id /\ \A j \in DOMAIN occ : occ[j].id = id => i <= j]

\* C16: when a load completes and the five checked documents have loaded,
\* every occurrence of an ID after its first one has an error at the place
\* of that occurrence, whose message names the ID and the document and
\* path of the first occurrence.
C16_DuplicatesLocated ==
    \A l \in DOMAIN loads :
        (loads[l].settled /\ \A d \in DOMAIN CheckedDocs : LoadsAlone(CheckedDocs[d])) =>
            \A j \in DOMAIN AllOccurrences :
                LET later == AllOccurrences[j]
                    first == FirstOccurrence(AllOccurrences, later.id)
                IN  first # later =>
                        \E e \in Range(loads[l].errors) :
                            /\ e.configName = later.configName
                            /\ e.path = later.path
                            /\ e.message = "ID '" \o later.id \o "' is already used in "
                                              \o first.configName \o " at " \o first.path

-----------------------------------------------------------------------------
(* Properties of the manager's getters and of the completion of loads.     *)

\* No load started since the manager was constructed or last reset has
\* completed with success: none was started, the first is in flight, or
\* the last one failed.
NoSuccessfulLoad ==
    ~\E l \in DOMAIN loads : l > resetAt /\ loads[l].settled /\ loads[l].success

\* C17: getEnum and getConfig throw whenever no successful load is cached
\* (before any load, while a first load is in flight, after a failed load,
\* after reset()), and isLoaded() is false in exactly those states.
C17_GettersThrowUnlessLoaded ==
    /\ NoSuccessfulLoad => getEnumThrows /\ getConfigThrows
    /\ ~isLoaded <=> NoSuccessfulLoad

\* The parts of C18 that concern completion.  Every load that has been
\* started completes, and the manager does not keep a load promise for
\* ever (under SpecLive).
EveryLoadCompletes ==
    /\ \A l \in 1..MaxCalls :
          (l \in DOMAIN loads) ~> (l \in DOMAIN loads /\ loads[l].settled)
    /\ (loadPromise # 0) ~> (loadPromise = 0)

\* A load that completes while a document cannot be fetched or does not
\* pass its schema completes as failed.
FailureYieldsFailed ==
    [][\A l \in DOMAIN loads :
         (Completes(l) /\ ~AllDocumentsPass) =>
             ~loads'[l].success /\ loads'[l].errors # <<>>]_vars

\* C18: every load that is started completes as a success or as a failure
\* and the manager does not stay loading (the two formulas above); and a
\* loadAllConfigs call made when the call before it has returned a failure
\* starts a fresh load, which is the part stated here.
C18_FailedThenFreshLoad ==
    [][(/\ Len(calls') > Len(calls)
        /\ calls # <<>>
        /\ calls[Len(calls)].result.settled
        /\ ~calls[Len(calls)].result.success) =>
            /\ Len(loads') = Len(loads) + 1
            /\ ~loads'[Len(loads')].settled]_vars

-----------------------------------------------------------------------------
(* Properties of the formula evaluator.                                    *)

Evaluated == lastOp.name = "evaluateFormula"

\* The formula names a variable that the map does not define.
UnknownIdentifier(formula, attributes) ==
    \E i \in DOMAIN formula :
        formula[i].t = "id" /\ formula[i].name \notin DOMAIN attributes

\* The number a token stands for: a literal, or a defined variable.
IsNumber(token, attributes) ==
    token.t = "num" \/ (token.t = "id" /\ token.name \in DOMAIN attributes)

NumberOf(token, attributes) ==
    IF token.t = "num" THEN token.n ELSE attributes[token.name]

\* The formula is one division, and its divisor is zero.
DividesByZero(formula, attributes) ==
    /\ Len(formula) = 3
    /\ formula[2] = Op("/")
    /\ IsNumber(formula[1], attributes)
    /\ IsNumber(formula[3], attributes)
    /\ NumberOf(formula[3], attributes) = 0

\* C19: evaluateFormula does not throw and returns a non-negative integer,
\* whatever the expression and the map; it returns 0 for an expression
\* that names a variable the map does not define and for the empty
\* expression.
C19_NonNegativeInteger ==
    Evaluated =>
        /\ ~lastOp.threw
        /\ lastOp.arg.result.finite
        /\ lastOp.arg.result.n \in Nat
        /\ (UnknownIdentifier(lastOp.arg.formula, lastOp.arg.attributes)
               \/ lastOp.arg.formula = <<>>) => lastOp.arg.result = Count(0)

\* C20: evaluateFormula returns 0 for a formula whose evaluation divides
\* by zero, such as "STR / 0" with STR = 4.
C20_DivisionByZeroGivesZero ==
    (Evaluated /\ DividesByZero(lastOp.arg.formula, lastOp.arg.attributes)) =>
        lastOp.arg.result = Count(0)

-----------------------------------------------------------------------------
(* The value validator (claims C21 and C22).                                *)

Validated == lastOp.name = "validateAttributeValue"

ValidatedSchema == lastOp.arg.attribute.schema

\* The validated value is the integer n.
ValueIs(n) == lastOp.arg.value.n = n * lastOp.arg.value.d

\* The schema gives a minimum and a numeric maximum, minimum <= maximum.
OrderedBounds ==
    /\ Validated
    /\ ValidatedSchema.minimum.has
    /\ ValidatedSchema.maximum = "number"
    /\ ValidatedSchema.minimum.v <= ValidatedSchema.maximumValue

\* The integer n passes the schema's exclusive bounds and its step.
OtherRulesAllow(n) ==
    /\ ValidatedSchema.exclusiveMinimum.has => n > ValidatedSchema.exclusiveMinimum.v
    /\ ValidatedSchema.exclusiveMaximum.has => n < ValidatedSchema.exclusiveMaximum.v
    /\ ValidatedSchema.multipleOf.has => n % ValidatedSchema.multipleOf.v = 0

\* C21: for every schema with minimum <= numeric maximum the validator
\* accepts the value minimum, accepts the value maximum and rejects
\* minimum - 1.
C21_BoundsAccepted ==
    OrderedBounds =>
        /\ ValueIs(ValidatedSchema.minimum.v) => lastOp.arg.result
        /\ ValueIs(ValidatedSchema.maximumValue) => lastOp.arg.result
        /\ ValueIs(ValidatedSchema.minimum.v - 1) => ~lastOp.arg.result

\* C21 as the code has it: for every schema with minimum <= numeric maximum
\* the validator rejects minimum - 1, and it accepts minimum (maximum)
\* exactly when minimum (maximum) also passes the schema's exclusive bounds
\* and its step.
C21_BoundsAcceptedUnderOtherRules ==
    OrderedBounds =>
        /\ ValueIs(ValidatedSchema.minimum.v)
             => (lastOp.arg.result <=> OtherRulesAllow(ValidatedSchema.minimum.v))
        /\ ValueIs(ValidatedSchema.maximumValue)
             => (lastOp.arg.result <=> OtherRulesAllow(ValidatedSchema.maximumValue))
        /\ ValueIs(ValidatedSchema.minimum.v - 1) => ~lastOp.arg.result

\* The minimum of a schema with ordered bounds and a step was validated and
\* accepted.
C21_Witness ==
    /\ OrderedBounds
    /\ ValidatedSchema.multipleOf.has
    /\ ValueIs(ValidatedSchema.minimum.v)
    /\ lastOp.arg.result

\* Every rule of the schema passes for the validated value; a dynamic
\* maximum stands for the supplied cap, and for no bound without one.
AllRulesPass ==
    LET schema == ValidatedSchema
        n == lastOp.arg.value.n
        d == lastOp.arg.value.d
        cap == lastOp.arg.dynamicMaxValue
    IN  /\ schema.type = "integer" => \E i \in -n..n \cup n..-n : i * d = n
        /\ schema.minimum.has => n >= schema.minimum.v * d
        /\ schema.maximum = "number" => n <= schema.maximumValue * d
        /\ (schema.maximum = "dynamic" /\ cap.has) => n <= cap.v * d
        /\ schema.exclusiveMinimum.has => n > schema.exclusiveMinimum.v * d
        /\ schema.exclusiveMaximum.has => n < schema.exclusiveMaximum.v * d
        /\ schema.multipleOf.has
             => \E i \in -n..n \cup n..-n : i * schema.multipleOf.v * d = n

\* C22: validateAttributeValue accepts a value exactly when every rule
\* passes (integer-ness, minimum, maximum, exclusive bounds, step); with a
\* dynamic maximum the upper bound is the supplied cap, and there is none
\* when no cap is supplied.
C22_AcceptsExactlyWhenAllRulesPass ==
    Validated => (lastOp.arg.result <=> AllRulesPass)

\* A value above the supplied cap was validated against a dynamic maximum
\* that every other rule allows.
C22_Witness ==
    /\ Validated
    /\ ValidatedSchema.maximum = "dynamic"
    /\ lastOp.arg.dynamicMaxValue.has
    /\ lastOp.arg.value.n > lastOp.arg.dynamicMaxValue.v * lastOp.arg.value.d
    /\ ~ValidatedSchema.exclusiveMaximum.has
    /\ ~ValidatedSchema.multipleOf.has
    /\ ~lastOp.arg.result

-----------------------------------------------------------------------------
(* The per-document validators (claims C23 and C24).                        *)

\* The served combat-stats document has a pair whose first member has a
\* dynamic maximum and whose second member has no numeric maximum.
DynamicPairWithoutNumericMaximum ==
    /\ server["combatStats"].found
    /\ \E i \in DOMAIN Served("combatStats").stats :
         LET entry == Served("combatStats").stats[i]
         IN  /\ entry.pair
             /\ entry.first.schema.maximum = "dynamic"
             /\ entry.second.schema.maximum # "number"

\* C23: a paired stat whose first member has a dynamic maximum is accepted
\* only if the second member has a numeric maximum; with a second member
\* whose maximum is dynamic or left out the combat-stats document is
\* rejected, so a load of it reports an error of that document.
C23_DynamicPairNeedsNumericMaximum ==
    \A l \in DOMAIN loads :
        (loads[l].settled /\ online /\ DynamicPairWithoutNumericMaximum) =>
            /\ SchemaIssues("combatStats", Served("combatStats")) # <<>>
            /\ ErrorsOf(loads[l].errors, "combatStats") # <<>>

\* The names of the values of the served enumerations, one list for each
\* enumeration.
ServedValueNames ==
    [i \in DOMAIN Served("enums").enums |->
        [j \in DOMAIN Served("enums").enums[i].values |->
            Served("enums").enums[i].values[j].name]]

\* The served document holds the same ID twice (a pair gives both members'
\* IDs), or an enumeration of it the same value name twice.
HasDuplicate(name) ==
    /\ server[name].found
    /\ \/ ~NoDuplicates([i \in DOMAIN Flatten(Occurrences(name)) |->
                           Flatten(Occurrences(name))[i].id])
       \/ /\ name = "enums"
          /\ \E i \in DOMAIN ServedValueNames : ~NoDuplicates(ServedValueNames[i])

\* C24: each per-document validator rejects a document that holds a
\* duplicate: two enumerations, attributes, info fields, combat stats (pairs
\* flattened) or inventory tabs with the same ID, or two values with the
\* same name in one enumeration.
C24_DuplicatesRejected ==
    \A l \in DOMAIN loads :
        loads[l].settled =>
            \A a \in DOMAIN CheckedDocs :
                HasDuplicate(CheckedDocs[a]) =>
                    SchemaIssues(CheckedDocs[a], Served(CheckedDocs[a])) # <<>>

-----------------------------------------------------------------------------
(* Persisted records (claims C25 and C26).                                  *)

\* A persisted text has just been deserialized, on mount or for an import.
Deserialized == lastOp.name \in {"AppMount", "handleImportJSON"}

\* The text parsed, and the parsed payload fails strict validation.
FailsStrictValidation ==
    /\ lastOp.arg.text.json
    /\ ~(/\ \A k \in PayloadKeys : lastOp.arg.text.keys[k] = "given"
         /\ validateCharacterSheet(lastOp.arg.text.sheet))

\* C25: deserializeCharacter accepts a parsed payload that fails strict
\* validation whenever the seven keys are all present, whatever their
\* values; it returns a failure when a key is missing and strict validation
\* fails, and when the text is not JSON.
C25_PermissiveWhenKeysPresent ==
    Deserialized =>
        /\ (/\ FailsStrictValidation
            /\ \A k \in PayloadKeys : lastOp.arg.text.keys[k] # "missing")
             => lastOp.arg.result.success
        /\ (/\ FailsStrictValidation
            /\ \E k \in PayloadKeys : lastOp.arg.text.keys[k] = "missing")
             => ~lastOp.arg.result.success
        /\ ~lastOp.arg.text.json => ~lastOp.arg.result.success

\* C25 as the code has it: a parsed payload that fails strict validation
\* is accepted exactly when the seven keys all hold truthy values; it is a
\* failure when a key is missing or holds a falsy value, and when the text
\* is not JSON.
C25_PermissiveWhenKeysTruthy ==
    Deserialized =>
        /\ FailsStrictValidation =>
             (lastOp.arg.result.success
                <=> \A k \in PayloadKeys : lastOp.arg.text.keys[k] = "given")
        /\ ~lastOp.arg.text.json => ~lastOp.arg.result.success

\* A payload with every key, which fails strict validation, was accepted.
C25_Witness ==
    /\ Deserialized
    /\ FailsStrictValidation
    /\ \A k \in PayloadKeys : lastOp.arg.text.keys[k] = "given"
    /\ lastOp.arg.result.success

\* The step asks the store to load a record that deserializeCharacter has
\* accepted: on mount, or for an import the user confirms.
LoadsAccepted ==
    /\ lastOp'.name \in {"AppMount", "handleImportJSON"}
    /\ lastOp'.arg.result.success
    /\ lastOp'.name = "handleImportJSON" => lastOp'.arg.confirmed

\* C26: a persisted record that deserializeCharacter accepts, also one
\* accepted only through the permissive fallback, is the store's live
\* record once it has been loaded at initialization or import.
C26_AcceptedRecordBecomesLive ==
    [][LoadsAccepted => character' = lastOp'.arg.result.data]_vars

-----------------------------------------------------------------------------
(* The live record (claim C27).                                             *)

\* C27: the live record is never invalid: in every state reached from the
\* empty character by store actions the record passes strict validation
\* (an action with an invalid input leaves the record as it was).
C27_RecordAlwaysValid == validateCharacterSheet(character)

-----------------------------------------------------------------------------
(* reset() and the error list (claims C28 and C29).                         *)

\* The loads that have been started and have not completed.
InFlight(ls) == {l \in DOMAIN ls : ~ls[l].settled}

\* C28: after a reset() made while a load is in flight the manager stays
\* unloaded until a load started after the reset completes with success;
\* the completion of the load started before the reset does not fill the
\* cache; and at most one load is in flight at any time.
C28_ResetDiscardsLoadInFlight ==
    [][/\ \A l \in DOMAIN loads :
            (Completes(l) /\ nResets > 0 /\ l <= resetAt) =>
                ~config'.loaded
       /\ (nResets' > 0 /\ config'.loaded) =>
            \E l \in DOMAIN loads' :
                l > resetAt' /\ loads'[l].settled /\ loads'[l].success
       /\ Cardinality(InFlight(loads')) <= 1]_vars

\* C29: in every reachable state isLoaded() implies that getErrors() is
\* empty, over any sequence of failed loads, successful loads and resets.
C29_LoadedImpliesNoErrors == isLoaded => getErrors = <<>>

-----------------------------------------------------------------------------
(* Edits of the attributes section (claim C30).                             *)

\* C30: when the attributes section accepts an edit of an attribute to v,
\* because validateAttributeValue holds for its configuration and v, the
\* store afterwards holds exactly v for the attribute, and the slot array
\* of every inventory tab has evaluateFormula(tab.slotFormula, attributes)
\* entries for the attributes with the new value.
C30_AcceptedEditStored ==
    [][\A attrId \in EditedAttributes, v \in EditedValues :
         handleAttributeChange(attrId, v) =>
             /\ attrId \in DOMAIN character'.attributes
             /\ character'.attributes[attrId] = v
             /\ \A i \in DOMAIN config.inventory.tabs :
                  LET tab == config.inventory.tabs[i]
                      n == evaluateFormula(tab.slotFormula, character'.attributes)
                  IN  /\ n.finite
                      /\ tab.id \in DOMAIN character'.inventorySlots
                      /\ Len(character'.inventorySlots[tab.id]) = n.n]_vars

====
